---- MODULE Spec2Model ----
(***************************************************************************)
(* hydra-router: the websocket client directory (wsLocalClients /          *)
(* wsClients), its wsdir.* gossip between router instances, the offline    *)
(* message queue (Queuer) with the reconnect drain, and the routing of     *)
(* messages that carry via / forward.  Modelled from lib/servicerouter.js, *)
(* lib/queuer.js and hydra-router.js.                                      *)
(***************************************************************************)
EXTENDS Integers, Sequences, FiniteSets, TLC

(* ------------------------------ bounds -------------------------------- *)
\* router instances, websocket connections, reconnect frames and messages
\* (mids created by services and clients) of the whole model
MaxRouters == 2
MaxConns == 3
MaxReconnects == 2
MaxMsgs == 2
\* dequeue promises of one router that are unresolved at the same time
MaxInflight == 2
\* what a run of the directory specification (SpecDir) may use
DirConns == 2
DirReconnects == 2
\* what a run of the queue specification (SpecDrain) may use
DrainConns == 3
DrainReconnects == 2
DrainMsgs == 2
\* what a run of the routing specification (SpecFwd) may use
FwdConns == 2
FwdMsgs == 1
\* the gossip specification (SpecGossip): the client ids that the gossip of
\* a peer names, and the gossip messages of a run
\* SpecFrames: connections, frames and reconnects of the clients
FrameConns == 2
FrameMsgs == 2
FrameReconnects == 1
\* SpecRoutes: refresh messages of services, and HTTP requests
RoutesMsgs == 2
\* SpecHttp: HTTP requests
HttpMsgs == 1
AdminMsgs == 1
OneHour == 3
MaxClock == 4
StatsMsgs == 3
MaxIssueLogEntries == 2
IssueMsgs == 5
IssueConns == 2
ReconnectionConns == 2
ReconnectionReconnects == 1
ReconnectionMsgs == 3
NamesMsgs == 2
\* SpecErrors: connections and messages of services while redis may fail
ErrorConns == 1
ErrorMsgs == 2
\* SpecShutdown: connections that arrive around a shutdown
ShutdownConns == 2
GossipIds == 2
GossipMsgs == 3

RouterNames == <<"G1", "G2", "G3", "G4">>
ShortIDs == <<"c1", "c2", "c3", "c4", "c5">>

Routers == {RouterNames[i] : i \in 1..MaxRouters}
Conns == 1..MaxConns
Ids == {ShortIDs[k] : k \in Conns}
\* a sender on the hydra message channel: a router instance or some service
Svc == "svc"
Senders == Routers \cup {Svc}

(* --------------------------- UMF messages ----------------------------- *)
\* a parsed UMF route  [instance-subID@service]; service "" = field absent
Route(instance, subID, service) ==
  [instance |-> instance, subID |-> subID, service |-> service]
NoRoute == Route("", "", "")
HR == "hydra-router"

NoBody ==
  [action |-> "", serviceName |-> "", routerID |-> "", clientID |-> "",
   directory |-> {}, id |-> "", error |-> ""]

Msg(mid, typ, to, frm, via, forward, body) ==
  [mid |-> mid, typ |-> typ, to |-> to, frm |-> frm, via |-> via,
   forward |-> forward, body |-> body]
\* what safeJSONParse gives for the nil reply of an empty list
Null == Msg(-1, "null", NoRoute, NoRoute, NoRoute, NoRoute, NoBody)

VARIABLES
  status,          \* router -> "down" | "up" | "stopping" | "stopped" | "gone"
  conn,            \* connection -> [st, router, id]   (ws, ws.id)
  wsLocalClients,  \* router -> (client id -> connection, 0 = no entry)
  wsClients,       \* router -> sequence of [routerID, dir] in key order
  chan,            \* <<sender, router>> -> messages in flight, FIFO
  queued,          \* queue key -> redis list <queue>:<id>:queued
  processing,      \* queue key -> redis list <queue>:<id>:processing
  sent,            \* connection -> frames handed to ws.send while open
  drains,          \* the setInterval timers of reconnect, in creation order
  replies,         \* router -> unresolved dequeue promises, in issue order
  lookups,         \* router -> pending getServicePresence callbacks
  nextMid,         \* number of messages created by services, clients, peers
  nReconnects,     \* number of reconnect frames handled
  nEnq,            \* history: queue key -> number of RPUSHes so far
  limit,           \* what this run may use: [routers, conns, reconnects, msgs]
  routerTable,     \* router -> sequence of [serviceName, routes] in key order
  serviceNames,    \* router -> the keys of this.serviceNames, in key order
  registry,        \* what hydra.getAllServiceRoutes() returns now
  refreshes,       \* router -> the scopes of the unresolved _refreshRoutes
  http,            \* the HTTP requests so far, with what was done for each
  api,             \* the unresolved hydra.makeAPIRequest / getServicePresence
  svcInbox,        \* what hydra.sendMessage has sent to service instances
  errorStats,      \* router -> (service -> number of errorStats.log calls)
  config,          \* config.forceMessageSignature, config.signatureSharedSecret
  store,           \* "up" | "down": the redis of the Queuer answers, or fails
  rejections,      \* router -> rejected promises that have no handler
  clock,           \* seconds of wall-clock time since the hour began
  httpStats,       \* router -> this.httpStats: [stats, cellVisit]
  logCalls,        \* history: router -> httpStats.log calls per target in
                   \* the current second (now) and in the one before (last)
  issueLog,        \* router -> this.issueLog, the type of each entry
  issueLogCleanup  \* router -> [scheduled, len]: the timer of log() and
                   \* the length that its callback has captured

routeVars == <<routerTable, serviceNames, registry, refreshes>>
httpVars == <<http, api, svcInbox, errorStats, config>>
procVars == <<store, rejections>>
statVars == <<clock, httpStats, logCalls>>
logVars == <<issueLog, issueLogCleanup>>
vars == <<status, conn, wsLocalClients, wsClients, chan, queued, processing,
          sent, drains, replies, lookups, nextMid, nReconnects, nEnq, limit,
          routeVars, httpVars, procVars, statVars, logVars>>

(* ----------------------- wsClients (an object) ------------------------ *)
DirKeys(d) == {d[i].routerID : i \in 1..Len(d)}
DirIdx(d, rid) == CHOOSE i \in 1..Len(d) : d[i].routerID = rid
DirGet(d, rid) == d[DirIdx(d, rid)].dir
DirPut(d, rid, ids) ==
  IF rid \in DirKeys(d)
    THEN [d EXCEPT ![DirIdx(d, rid)].dir = ids]
    ELSE Append(d, [routerID |-> rid, dir |-> ids])
DirDel(d, rid) == SelectSeq(d, LAMBDA e : e.routerID # rid)
\* the ids a directory lists for a router; none when it has no entry
Listed(d, rid) == IF rid \in DirKeys(d) THEN DirGet(d, rid) ELSE {}
\* the keys of wsLocalClients of a router
LocalIds(r) == {i \in Ids : wsLocalClients[r][i] # 0}

(* ------------------------- message channel ---------------------------- *)
\* the process runs: shutdown() leaves everything working until the exit
Up(r) == status[r] \in {"up", "stopping"}

\* hydra.sendBroadcastMessage: every running instance of the service gets
\* the messages; the sender's own copy fails the routerID test of
\* _handleIncomingChannelMessage and carries no via / forward, so it is
\* left out.
Broadcast(c, s, msgs) ==
  [p \in DOMAIN c |->
     IF p[1] = s /\ p[2] # s /\ Up(p[2]) THEN c[p] \o msgs ELSE c[p]]

\* a send that reaches nobody
SendTo_Nobody(c, s, r, m) == c

\* hydra.sendMessage to one instance
SendTo(c, s, r, m) ==
  IF Up(r) THEN [c EXCEPT ![<<s, r>>] = Append(@, m)] ELSE c

Gossip(typ, r, clientID, directory) ==
  Msg(0, typ, Route("", "", HR), Route(r, "", HR), NoRoute, NoRoute,
      [NoBody EXCEPT !.routerID = r, !.clientID = clientID,
                     !.directory = directory])

(* --------------------------- ws connection ---------------------------- *)
\* ws.send: ws 8.5.0 drops the data when the socket is not open
WsSend(s, k, m) ==
  IF conn[k].st = "open" THEN [s EXCEPT ![k] = Append(@, m)] ELSE s

Welcome(r, id) ==
  Msg(0, "connection", Route(id, "", "client"), Route(r, "", HR),
      NoRoute, NoRoute,
      [NoBody EXCEPT !.id = id])

ErrorFrame(r, text) ==
  Msg(0, "", Route("", "", "client"), Route(r, "", HR), NoRoute, NoRoute,
      [NoBody EXCEPT !.error = text])

(* ------------------------------ Queuer -------------------------------- *)
\* the queue name `${HR_MESSAGE_QUEUE}:${id}`; the id is "" for a route
\* without subID
HR_MESSAGE_QUEUE == "hydra-router:message:queue"
QueueKey(id) == <<HR_MESSAGE_QUEUE, id>>
QueueKeys == {QueueKey(i) : i \in Ids \cup {""}}

\* Utils.safeJSONStringify / Utils.safeJSONParse: a string is told from the
\* object it encodes; the nil reply parses to Null
Stringify(obj) == [js |-> obj]
Parse(data) == data.js
Nil == [js |-> Null]

\* enqueue: RPUSH <queue>:queued
Enqueue(q, key, obj) == [q EXCEPT ![key] = Append(@, Stringify(obj))]

\* a dequeue that copies the tail of queued to processing and leaves it queued
RPopLPush_Copy(q, p, key) ==
  IF q[key] = <<>>
    THEN [queued |-> q, processing |-> p, data |-> Nil]
    ELSE [queued |-> q,
          processing |-> [p EXCEPT ![key] = <<q[key][Len(q[key])]>> \o @],
          data |-> q[key][Len(q[key])]]

\* dequeue: RPOPLPUSH <queue>:queued <queue>:processing, the lists after it
\* and the reply
RPopLPush(q, p, key) ==
  IF q[key] = <<>>
    THEN [queued |-> q, processing |-> p, data |-> Nil]
    ELSE [queued |-> [q EXCEPT ![key] = SubSeq(@, 1, Len(@) - 1)],
          processing |-> [p EXCEPT ![key] = <<q[key][Len(q[key])]>> \o @],
          data |-> q[key][Len(q[key])]]

\* LREM list -1 value: the last element equal to value is removed
LRemLast(list, v) ==
  LET hits == {i \in 1..Len(list) : list[i] = v}
  IN IF hits = {} THEN list
     ELSE LET j == CHOOSE i \in hits : \A h \in hits : h <= i
          IN SubSeq(list, 1, j - 1) \o SubSeq(list, j + 1, Len(list))

\* complete: LREM <queue>:processing -1 stringify(obj)
Complete(p, key, obj) == [p EXCEPT ![key] = LRemLast(@, Stringify(obj))]

\* this.queuer.enqueue(key, obj) by router r: RPUSH, or, when redis fails,
\* a rejected promise; no caller attaches a handler to the promise
QueuerEnqueue(r, key, obj) ==
  IF store = "up"
    THEN /\ queued' = Enqueue(queued, key, obj)
         /\ nEnq' = [nEnq EXCEPT ![key] = @ + 1]
         /\ UNCHANGED rejections
    ELSE /\ rejections' = [rejections EXCEPT ![r] = @ + 1]
         /\ UNCHANGED <<queued, nEnq>>

(* ---------------------------- route table ---------------------------- *)
\* a route as a service registers it, "[get]/v1/red/:id": the method and the
\* path, a sequence of segments; the segment ":p" is a parameter
Param == ":p"
RouteString(method, path) == [method |-> method, path |-> path]

\* routePattern.substring(idx + 1) and new Route(routePattern): the entry of
\* the table keeps the pattern without its method
RouteItem(route) == [pattern |-> route.path]
\* a list that is assigned before its last item is pushed
NewRouteItems_Partial(routes) ==
  [i \in 1..(Len(routes) - 1) |-> RouteItem(routes[i])]
NewRouteItems(routes) == [i \in 1..Len(routes) |-> RouteItem(routes[i])]

\* this.routerTable, an object: its keys in insertion order
TableKeys(t) == {t[i].serviceName : i \in 1..Len(t)}
TableIdx(t, name) == CHOOSE i \in 1..Len(t) : t[i].serviceName = name
TablePut(t, name, items) ==
  IF name \in TableKeys(t)
    THEN [t EXCEPT ![TableIdx(t, name)].routes = items]
    ELSE Append(t, [serviceName |-> name, routes |-> items])
TableGet(t, name) ==
  IF name \in TableKeys(t) THEN t[TableIdx(t, name)].routes ELSE <<>>

\* init: every service of routesObj gets its compiled routes
RECURSIVE CompileAll(_)
CompileAll(routesObj) ==
  IF routesObj = <<>> THEN <<>>
  ELSE <<[serviceName |-> Head(routesObj).serviceName,
          routes |-> NewRouteItems(Head(routesObj).routes)]>>
         \o CompileAll(Tail(routesObj))

\* this.serviceNames[serviceName] = true, for the keys of routesObj in turn
RECURSIVE AddNames(_, _)
AddNames(names, routesObj) ==
  IF routesObj = <<>> THEN names
  ELSE LET n == Head(routesObj).serviceName
       IN AddNames(IF \E i \in 1..Len(names) : names[i] = n
                     THEN names ELSE Append(names, n),
                   Tail(routesObj))

\* a refresh that replaces the routes of every service, whatever the scope
RECURSIVE RefreshTable_All(_, _, _)
RefreshTable_All(t, routesObj, service) ==
  IF routesObj = <<>> THEN t
  ELSE RefreshTable_All(TablePut(t, Head(routesObj).serviceName,
                                 [i \in 1..Len(Head(routesObj).routes) |->
                                    RouteItem(Head(routesObj).routes[i])]),
                        Tail(routesObj), service)

\* the forEach of _refreshRoutes(service) on table t; service "" stands for
\* an undefined service, which refreshes every service
RECURSIVE RefreshTable(_, _, _)
RefreshTable(t, routesObj, service) ==
  IF routesObj = <<>> THEN t
  ELSE LET e == Head(routesObj)
       IN RefreshTable(IF service = "" \/ service = e.serviceName
                         THEN TablePut(t, e.serviceName, NewRouteItems(e.routes))
                         ELSE t,
                       Tail(routesObj), service)

\* the services that register with hydra besides the router
ServiceNameList == <<"red", "redux">>
ServiceNameSet == {ServiceNameList[i] : i \in 1..Len(ServiceNameList)}

\* config.externalRoutes, a routes object; none when the key is absent
ExternalRoutes(cfg) ==
  IF "externalRoutes" \in DOMAIN cfg THEN cfg.externalRoutes ELSE <<>>
\* Object.assign(routesObj, config.externalRoutes) of setupRoutes
RECURSIVE Assign(_, _)
Assign(routesObj, source) ==
  IF source = <<>> THEN routesObj
  ELSE Assign(TablePut(routesObj, Head(source).serviceName,
                       Head(source).routes),
              Tail(source))

(* ------------------------------- Stats -------------------------------- *)
\* new Array(ONE_HOUR).fill(0)
Cells == [i \in 0..(OneHour - 1) |-> 0]
\* constructor(): no entry, no cell visited
NewStats == [stats |-> <<>>, cellVisit |-> Cells]
\* _getSecond(): the second on the hour
GetSecond(t) == t % OneHour
\* _ensureEntry(target)
EnsureEntry(s, target) ==
  IF target \in DOMAIN s.stats THEN s
  ELSE [s EXCEPT !.stats = [t \in DOMAIN s.stats \cup {target} |->
                              IF t = target THEN Cells ELSE s.stats[t]]]
\* log(target) in the given second
StatsLog(s, second, target) ==
  LET s1 == EnsureEntry(s, target)
      s2 == IF second = 0 /\ s1.cellVisit[second] = 1
              THEN [s1 EXCEPT !.cellVisit = Cells,
                              !.stats[target][second] = 0]
              ELSE s1
  IN IF s2.cellVisit[second] = 0
       THEN [s2 EXCEPT !.cellVisit[second] = 1, !.stats[target][second] = 1]
       ELSE [s2 EXCEPT !.stats[target][second] = @ + 1]
\* getRawStats()[key]: the cells from the current second on, then the cells
\* before it
GetRawStats(s, second, key) ==
  [i \in 1..OneHour |-> s.stats[key][(second + i - 1) % OneHour]]
\* getLastSecond(data): data.slice(-ONE_SECOND)
GetLastSecond(data) == SubSeq(data, Len(data), Len(data))

\* no call of httpStats.log in this second and in the one before
NoCalls ==
  [now |-> [t \in ServiceNameSet |-> 0], last |-> [t \in ServiceNameSet |-> 0]]
Called(c, target) ==
  IF target \in ServiceNameSet THEN [c EXCEPT !.now[target] = @ + 1] ELSE c

\* a second of wall-clock time passes
ClockTick ==
  /\ clock < MaxClock
  /\ clock' = clock + 1
  /\ logCalls' = [r \in Routers |->
                   [now |-> NoCalls.now, last |-> logCalls[r].now]]
  /\ UNCHANGED <<status, conn, wsLocalClients, wsClients, chan, queued,
                 processing, sent, drains, replies, lookups, nextMid,
                 nReconnects, nEnq, limit, httpStats, logVars, routeVars,
                 httpVars, procVars>>

(* ----------------------------- the issue log -------------------------- *)
\* log(type, message) of router r: lines 147-159
PushIssue(l, type) ==
  LET len == Len(l.log) + 1
  IN [log |-> Append(l.log, type),
      cleanup |-> IF len > MaxIssueLogEntries /\ ~l.cleanup.scheduled
                    THEN [scheduled |-> TRUE, len |-> len]
                    ELSE l.cleanup]
RECURSIVE PushIssues(_, _)
PushIssues(l, types) ==
  IF types = <<>> THEN l
  ELSE PushIssues(PushIssue(l, Head(types)), Tail(types))
\* the calls log(type, ...) that router r makes in a row, one for each type
LogIssues(r, types) ==
  LET l == PushIssues([log |-> issueLog[r], cleanup |-> issueLogCleanup[r]],
                      types)
  IN /\ issueLog' = [issueLog EXCEPT ![r] = l.log]
     /\ issueLogCleanup' = [issueLogCleanup EXCEPT ![r] = l.cleanup]
LogIssue(r, type) == LogIssues(r, <<type>>)
\* the callback of the timer of log(): lines 155-158
IssueLogCleanup(r) ==
  /\ Up(r)
  /\ issueLogCleanup[r].scheduled
  /\ issueLog' =
       [issueLog EXCEPT
          ![r] = SubSeq(@, issueLogCleanup[r].len - MaxIssueLogEntries + 1,
                        Len(@))]
  /\ issueLogCleanup' = [issueLogCleanup EXCEPT ![r].scheduled = FALSE]
  /\ UNCHANGED <<status, conn, wsLocalClients, wsClients, chan, queued,
                 processing, sent, drains, replies, lookups, nextMid,
                 nReconnects, nEnq, limit, statVars, routeVars, httpVars,
                 procVars>>

(* ------------------------------- Init --------------------------------- *)
DefaultConfig ==
  [forceMessageSignature |-> FALSE, signatureSharedSecret |-> "secret",
   disableRouterEndpoint |-> FALSE, routerToken |-> <<>>,
   externalRoutes |-> <<>>]

InitConfig(l, cfg, reg) ==
  /\ routerTable = [r \in Routers |-> <<>>]
  /\ serviceNames = [r \in Routers |-> <<>>]
  /\ registry = reg
  /\ refreshes = [r \in Routers |-> <<>>]
  /\ http = <<>>
  /\ api = <<>>
  /\ svcInbox = <<>>
  /\ errorStats = [r \in Routers |-> <<>>]
  /\ config = cfg
  /\ store = "up"
  /\ rejections = [r \in Routers |-> 0]
  /\ clock = 0
  /\ httpStats = [r \in Routers |-> NewStats]
  /\ logCalls = [r \in Routers |-> NoCalls]
  /\ issueLog = [r \in Routers |-> <<>>]
  /\ issueLogCleanup = [r \in Routers |-> [scheduled |-> FALSE, len |-> 0]]
  /\ status = [r \in Routers |-> "down"]
  /\ conn = [k \in Conns |-> [st |-> "new", router |-> "", id |-> ""]]
  /\ wsLocalClients = [r \in Routers |-> [i \in Ids |-> 0]]
  /\ wsClients = [r \in Routers |-> <<>>]
  /\ chan = [p \in Senders \X Routers |-> <<>>]
  /\ queued = [i \in QueueKeys |-> <<>>]
  /\ processing = [i \in QueueKeys |-> <<>>]
  /\ sent = [k \in Conns |-> <<>>]
  /\ drains = <<>>
  /\ replies = [r \in Routers |-> <<>>]
  /\ lookups = [r \in Routers |-> <<>>]
  /\ nextMid = 0
  /\ nReconnects = 0
  /\ nEnq = [i \in QueueKeys |-> 0]
  /\ limit = l

InitWith(l) == InitConfig(l, DefaultConfig, <<>>)

Init ==
  InitWith([routers |-> MaxRouters, conns |-> MaxConns,
            reconnects |-> MaxReconnects, msgs |-> MaxMsgs])

(* ------------------------- router life cycle -------------------------- *)
\* ServiceRouter.init: the instances start in the order of RouterNames
\* (instance ids are fresh per process, so a stopped one never returns).
Start(r) ==
  /\ status[r] = "down"
  /\ \E i \in 1..limit.routers :
       /\ RouterNames[i] = r
       /\ \A j \in 1..(i-1) : status[RouterNames[j]] # "down"
  /\ status' = [status EXCEPT ![r] = "up"]
  /\ wsLocalClients' = [wsLocalClients EXCEPT ![r] = [i \in Ids |-> 0]]
  /\ wsClients' = [wsClients EXCEPT ![r] = <<[routerID |-> r, dir |-> {}]>>]
  /\ routerTable' =
       [routerTable EXCEPT
          ![r] = CompileAll(Assign(registry, ExternalRoutes(config)))]
  /\ refreshes' = [refreshes EXCEPT ![r] = Append(@, "")]
  /\ chan' = Broadcast(chan, r, <<Gossip("wsdir.sha", r, "", {})>>)
  /\ UNCHANGED <<conn, queued, processing, sent, drains, replies, lookups,
                 nextMid, nReconnects, nEnq, limit, statVars, logVars, procVars, serviceNames, registry,
                 httpVars>>

\* ServiceRouter.shutdown, called by the 'cleanup' handler: wsdir.rem is
\* broadcast; the servers stay open and every handler keeps running until
\* the process exits
Shutdown(r) ==
  /\ status[r] = "up"
  /\ status' = [status EXCEPT ![r] = "stopping"]
  /\ chan' = Broadcast(chan, r, <<Gossip("wsdir.rem", r, "", {})>>)
  /\ UNCHANGED <<conn, wsLocalClients, wsClients, queued, processing, sent,
                 drains, replies, lookups, nextMid, nReconnects, nEnq, limit, statVars, logVars, procVars,
                 routeVars, httpVars>>

\* process.on('unhandledRejection'): a rejected promise of router r that has
\* no handler is reported; the handler emits 'cleanup', which runs
\* shutdown() and then process.exit(-1)
UnhandledRejection(r) ==
  /\ Up(r)
  /\ rejections[r] > 0
  /\ rejections' = [rejections EXCEPT ![r] = @ - 1]
  /\ status' = [status EXCEPT ![r] = "stopping"]
  /\ chan' = Broadcast(chan, r, <<Gossip("wsdir.rem", r, "", {})>>)
  /\ UNCHANGED <<conn, wsLocalClients, wsClients, queued, processing, sent,
                 drains, replies, lookups, nextMid, nReconnects, nEnq, limit, statVars, logVars,
                 store, routeVars, httpVars>>

\* the redis that holds the queues stops answering, or answers again
StoreFails ==
  /\ store = "up"
  /\ store' = "down"
  /\ UNCHANGED <<status, conn, wsLocalClients, wsClients, chan, queued,
                 processing, sent, drains, replies, lookups, nextMid,
                 nReconnects, nEnq, limit, statVars, logVars, rejections, routeVars, httpVars>>
StoreRecovers ==
  /\ store = "down"
  /\ store' = "up"
  /\ UNCHANGED <<status, conn, wsLocalClients, wsClients, chan, queued,
                 processing, sent, drains, replies, lookups, nextMid,
                 nReconnects, nEnq, limit, statVars, logVars, rejections, routeVars, httpVars>>

\* the process ends (kill, crash, or process.exit after shutdown): its
\* sockets die with it, its timers and callbacks never run, nothing is
\* broadcast; what it sent before is still delivered.
Exit(r) ==
  /\ Up(r)
  /\ status' = [status EXCEPT
                  ![r] = IF @ = "stopping" THEN "stopped" ELSE "gone"]
  /\ conn' = [k \in Conns |->
                IF conn[k].router = r /\ conn[k].st \in {"open", "closing"}
                  THEN [conn[k] EXCEPT !.st = "closed"] ELSE conn[k]]
  /\ chan' = [p \in DOMAIN chan |-> IF p[2] = r THEN <<>> ELSE chan[p]]
  /\ drains' = [i \in 1..Len(drains) |->
                  IF drains[i].router = r
                    THEN [drains[i] EXCEPT !.active = FALSE] ELSE drains[i]]
  /\ replies' = [replies EXCEPT ![r] = <<>>]
  /\ lookups' = [lookups EXCEPT ![r] = <<>>]
  /\ refreshes' = [refreshes EXCEPT ![r] = <<>>]
  /\ api' = SelectSeq(api, LAMBDA a : a.router # r)
  /\ rejections' = [rejections EXCEPT ![r] = 0]
  /\ UNCHANGED <<wsLocalClients, wsClients, queued, processing, sent,
                 nextMid, nReconnects, nEnq, limit, statVars, logVars, store, routerTable,
                 serviceNames, registry, http, svcInbox, errorStats, config>>

(* ------------------------- sendConnectMessage ------------------------- *)
\* the part of sendConnectMessage that registers ws under ws.id = id:
\* wsLocalClients, wsClients[self] and the wsdir.add broadcast
Bind(loc, k, id) ==
  IF loc[id] = 0 THEN [loc EXCEPT ![id] = k] ELSE loc
BindDir(d, loc, r, id) ==
  IF loc[id] = 0 THEN DirPut(d, r, DirGet(d, r) \cup {id}) ELSE d
BindGossip(loc, r, id) ==
  IF loc[id] = 0 THEN <<Gossip("wsdir.add", r, id, {})>> ELSE <<>>

\* wss.on('connection'): sendConnectMessage(ws, null, req); Utils.shortID()
\* gives connection k the id ShortIDs[k], never issued before.
Connect(r, k) ==
  LET id == ShortIDs[k]
      loc == wsLocalClients[r]
  IN
  /\ Up(r)
  /\ k <= limit.conns
  /\ conn[k].st = "new"
  /\ \A j \in 1..(k-1) : conn[j].st # "new"
  /\ conn' = [conn EXCEPT ![k] = [st |-> "open", router |-> r, id |-> id]]
  /\ wsLocalClients' = [wsLocalClients EXCEPT ![r] = Bind(loc, k, id)]
  /\ wsClients' = [wsClients EXCEPT ![r] = BindDir(@, loc, r, id)]
  /\ chan' = Broadcast(chan, r, BindGossip(loc, r, id))
  /\ sent' = [sent EXCEPT ![k] = Append(@, Welcome(r, id))]
  /\ UNCHANGED <<status, queued, processing, drains, replies, lookups,
                 nextMid, nReconnects, nEnq, limit, statVars, logVars, procVars, routeVars, httpVars>>

(* ---------------------------- wsDisconnect ---------------------------- *)
Unbind(loc, id) == [loc EXCEPT ![id] = 0]
UnbindDir(d, r, id) == DirPut(d, r, DirGet(d, r) \ {id})
UnbindGossip_None(r, id) == <<>>
UnbindGossip(r, id) == <<Gossip("wsdir.del", r, id, {})>>

\* ws.on('close'): wsDisconnect(ws); the socket was closed by the client, or
\* by an earlier wsDisconnect whose close event this is.
CloseEvent(k) ==
  LET r == conn[k].router
      id == conn[k].id
  IN
  /\ conn[k].st \in {"open", "closing"}
  /\ Up(r)
  /\ conn' = [conn EXCEPT ![k].st = "closed"]
  /\ wsLocalClients' = [wsLocalClients EXCEPT ![r] = Unbind(@, id)]
  /\ wsClients' = [wsClients EXCEPT ![r] = UnbindDir(@, r, id)]
  /\ chan' = Broadcast(chan, r, UnbindGossip(r, id))
  /\ UNCHANGED <<status, queued, processing, sent, drains, replies, lookups,
                 nextMid, nReconnects, nEnq, limit, statVars, logVars, procVars, routeVars, httpVars>>

(* ------------------- routeWSMessage: case 'reconnect' ----------------- *)
\* a dequeue promise of drain i is unresolved
Pending(i) ==
  \E n \in 1..Len(replies[drains[i].router]) :
     replies[drains[i].router][n].iid = i
\* the timer of drain i runs, or one of its dequeues is unresolved
Live(i) == drains[i].active \/ Pending(i)

\* the timer that reconnect creates.  snap and enqAt are history: the mids
\* queued when it was created, in list order, and the number of RPUSHes
\* until then.
NewDrain(k, c, r) ==
  [ws |-> k, id |-> c, router |-> r, active |-> TRUE,
   snap |-> [n \in 1..Len(queued[QueueKey(c)]) |->
               Parse(queued[QueueKey(c)][n]).mid],
   enqAt |-> nEnq[QueueKey(c)]]

\* a reconnect frame of connection k whose body.id is c: the old entry is
\* removed, wsdir.del is broadcast, sendConnectMessage(ws, c, null) runs and
\* the drain timer is created.  c is an id that was issued to some client.
RouteWSReconnect(k, c) ==
  LET r == conn[k].router
      a == conn[k].id
      loc1 == Unbind(wsLocalClients[r], a)
      dir1 == UnbindDir(wsClients[r], r, a)
  IN
  /\ conn[k].st = "open"
  /\ Up(r)
  /\ nReconnects < limit.reconnects
  /\ \E j \in Conns : conn[j].st # "new" /\ ShortIDs[j] = c
  /\ nReconnects' = nReconnects + 1
  /\ conn' = [conn EXCEPT ![k].id = c]
  /\ wsLocalClients' = [wsLocalClients EXCEPT ![r] = Bind(loc1, k, c)]
  /\ wsClients' = [wsClients EXCEPT ![r] = BindDir(dir1, loc1, r, c)]
  /\ chan' = Broadcast(chan, r, UnbindGossip(r, a) \o BindGossip(loc1, r, c))
  /\ sent' = [sent EXCEPT ![k] = Append(@, Welcome(r, c))]
  /\ drains' = Append(drains, NewDrain(k, c, r))
  /\ UNCHANGED <<status, queued, processing, replies, lookups, nextMid,
                 nEnq, limit, statVars, logVars, procVars, routeVars, httpVars>>

\* a reconnect frame without body.id: error frame, then wsDisconnect(ws)
RouteWSReconnectNoId(k) ==
  LET r == conn[k].router
      id == conn[k].id
  IN
  /\ conn[k].st = "open"
  /\ Up(r)
  /\ nReconnects < limit.reconnects
  /\ nReconnects' = nReconnects + 1
  /\ sent' = [sent EXCEPT
                ![k] = Append(@, ErrorFrame(r, "reconnect message missing reconnect id"))]
  /\ conn' = [conn EXCEPT ![k].st = "closing"]
  /\ wsLocalClients' = [wsLocalClients EXCEPT ![r] = Unbind(@, id)]
  /\ wsClients' = [wsClients EXCEPT ![r] = UnbindDir(@, r, id)]
  /\ chan' = Broadcast(chan, r, UnbindGossip(r, id))
  /\ UNCHANGED <<status, queued, processing, drains, replies, lookups,
                 nextMid, nEnq, limit, statVars, logVars, procVars, routeVars, httpVars>>

\* the timer of drain i fires: this.queuer.dequeue(queueName).  Redis runs
\* the commands of one client in the order they were issued, so the
\* RPOPLPUSH is applied here and its promise resolves later, in order.
\* When redis fails the promise is rejected, and it has no handler.
Tick(i) ==
  LET d == drains[i]
      res == RPopLPush(queued, processing, QueueKey(d.id))
  IN
  /\ i \in 1..Len(drains)
  /\ d.active
  /\ Up(d.router)
  /\ Len(replies[d.router]) < MaxInflight
  /\ IF store = "up"
       THEN /\ queued' = res.queued
            /\ processing' = res.processing
            /\ replies' = [replies EXCEPT
                             ![d.router] = Append(@, [iid |-> i,
                                                      obj |-> Parse(res.data)])]
            /\ UNCHANGED rejections
       ELSE /\ rejections' = [rejections EXCEPT ![d.router] = @ + 1]
            /\ UNCHANGED <<queued, processing, replies>>
  /\ UNCHANGED <<status, conn, wsLocalClients, wsClients, chan, sent, drains,
                 lookups, nextMid, nReconnects, nEnq, limit, statVars, logVars, store,
                 routeVars, httpVars>>

\* .then((obj) => ...) of the oldest unresolved dequeue of router r
Resolve(r) ==
  LET h == Head(replies[r])
      d == drains[h.iid]
  IN
  /\ Up(r)
  /\ replies[r] # <<>>
  /\ replies' = [replies EXCEPT ![r] = Tail(@)]
  /\ IF h.obj = Null
       THEN /\ drains' = [drains EXCEPT ![h.iid].active = FALSE]
            /\ UNCHANGED <<sent, processing, rejections>>
       ELSE /\ sent' = WsSend(sent, d.ws, h.obj)
            /\ IF store = "up"
                 THEN /\ processing' = Complete(processing, QueueKey(d.id),
                                                h.obj)
                      /\ UNCHANGED rejections
                 ELSE /\ rejections' = [rejections EXCEPT ![r] = @ + 1]
                      /\ UNCHANGED processing
            /\ UNCHANGED drains
  /\ UNCHANGED <<status, conn, wsLocalClients, wsClients, chan, queued,
                 lookups, nextMid, nReconnects, nEnq, limit, statVars, logVars, store,
                 routeVars, httpVars>>

(* -------------------- _handleIncomingChannelMessage ------------------- *)
IsRefresh(m) == m.body.action = "refresh"
IsGossip(r, m) == m.body.routerID # "" /\ m.body.routerID # r
HasVia(m) == m.via # NoRoute
HasForward(m) == m.forward # NoRoute

\* a handler whose wsdir.dir adds the directory to what is listed already
GossipDir_Merge(d, m) ==
  LET rid == m.body.routerID
      d0 == IF rid \in DirKeys(d) THEN d ELSE DirPut(d, rid, {})
  IN CASE m.typ = "wsdir.add" ->
            DirPut(d0, rid, DirGet(d0, rid) \cup {m.body.clientID})
       [] m.typ = "wsdir.del" ->
            DirPut(d0, rid, DirGet(d0, rid) \ {m.body.clientID})
       [] m.typ = "wsdir.rem" -> DirDel(d0, rid)
       [] m.typ = "wsdir.dir" ->
            DirPut(d0, rid, DirGet(d0, rid) \cup m.body.directory)
       [] OTHER -> d0

\* lines 207-239: the directory after the message, and what is broadcast
GossipDir(d, m) ==
  LET rid == m.body.routerID
      d0 == IF rid \in DirKeys(d) THEN d ELSE DirPut(d, rid, {})
  IN CASE m.typ = "wsdir.add" ->
            DirPut(d0, rid, DirGet(d0, rid) \cup {m.body.clientID})
       [] m.typ = "wsdir.del" ->
            DirPut(d0, rid, DirGet(d0, rid) \ {m.body.clientID})
       [] m.typ = "wsdir.rem" -> DirDel(d0, rid)
       [] m.typ = "wsdir.dir" -> DirPut(d0, rid, m.body.directory)
       [] OTHER -> d0
\* a handler that sends what it received to its peers again
GossipReply_Echo(d, r, m) == <<m>>
GossipReply(d, r, m) ==
  IF m.typ = "wsdir.sha"
    THEN <<[Gossip("wsdir.dir", r, "", DirGet(d, r))
              EXCEPT !.to = Route(m.body.routerID, "", HR)]>>
    ELSE <<>>

\* lookups that never find a local connection
ViaTarget_None(loc, m) == 0
ForwardTarget_None(loc, m) == 0

\* lines 241-251: the local connection of the via tag's subID, 0 if none
ViaTarget(loc, m) ==
  IF m.via.subID # "" THEN loc[m.via.subID] ELSE 0
\* lines 259-266: the local connection of the forward's instance, 0 if none
ForwardTarget(loc, m) == loc[m.forward.instance]

\* hydra.on('message'): the oldest message that sender s has in flight to
\* router r is handled.  A refresh request calls _refreshRoutes, which
\* waits for the registry before it changes the table.
HandleIncomingChannelMessage(s, r) ==
  LET m == Head(chan[<<s, r>>])
      c1 == [chan EXCEPT ![<<s, r>>] = Tail(@)]
      loc == wsLocalClients[r]
  IN
  /\ Up(r)
  /\ chan[<<s, r>>] # <<>>
  /\ IF IsRefresh(m)
       THEN /\ chan' = c1
            /\ refreshes' = [refreshes EXCEPT
                               ![r] = Append(@, m.body.serviceName)]
            /\ UNCHANGED <<wsClients, sent, queued, nEnq, rejections>>
       ELSE IF IsGossip(r, m)
       THEN /\ wsClients' = [wsClients EXCEPT ![r] = GossipDir(@, m)]
            /\ chan' = Broadcast(c1, r, GossipReply(wsClients[r], r, m))
            /\ UNCHANGED <<sent, queued, nEnq, refreshes, rejections>>
       ELSE IF HasVia(m)
       THEN /\ chan' = c1
            /\ IF ViaTarget(loc, m) # 0
                 THEN /\ sent' = WsSend(sent, ViaTarget(loc, m),
                                        [m EXCEPT !.via = NoRoute])
                      /\ UNCHANGED <<queued, nEnq, rejections>>
                 ELSE /\ QueuerEnqueue(r, QueueKey(m.via.subID), m)
                      /\ UNCHANGED sent
            /\ UNCHANGED <<wsClients, refreshes>>
       ELSE IF HasForward(m)
       THEN /\ chan' = c1
            /\ IF ForwardTarget(loc, m) # 0
                 THEN /\ sent' = WsSend(sent, ForwardTarget(loc, m), m)
                      /\ UNCHANGED <<queued, nEnq, rejections>>
                 ELSE /\ QueuerEnqueue(r, QueueKey(m.forward.instance), m)
                      /\ UNCHANGED sent
            /\ UNCHANGED <<wsClients, refreshes>>
       ELSE /\ chan' = c1
            /\ UNCHANGED <<wsClients, sent, queued, nEnq, refreshes,
                           rejections>>
  /\ UNCHANGED <<status, conn, wsLocalClients, processing, drains, replies,
                 lookups, nextMid, nReconnects, limit, statVars, logVars, store, routerTable,
                 serviceNames, registry, httpVars>>

(* ----------------------- messages from services ----------------------- *)
IssuedIds == {ShortIDs[j] : j \in {n \in Conns : conn[n].st # "new"}}
ViaTags(r) == {Route(r, c, HR) : c \in IssuedIds}
Forwards == {Route(c, "", "client") : c \in IssuedIds}
Bodies ==
  {NoBody, [NoBody EXCEPT !.action = "refresh"]}
    \cup {[NoBody EXCEPT !.routerID = x] : x \in Routers}

\* a service sends router r a message (a reply that carries the via tag it
\* was given, or a message with forward), of any body
ServiceSend(r, v, f, b) ==
  /\ Up(r)
  /\ nextMid < limit.msgs
  /\ nextMid' = nextMid + 1
  /\ chan' = [chan EXCEPT ![<<Svc, r>>] =
                Append(@, Msg(nextMid + 1, "msg", Route(r, "", HR),
                              Route("", "", Svc), v, f, b))]
  /\ UNCHANGED <<status, conn, wsLocalClients, wsClients, queued, processing,
                 sent, drains, replies, lookups, nReconnects, nEnq, limit, statVars, logVars, procVars, routeVars, httpVars>>

(* ---------------- routeWSMessage: a frame with forward ---------------- *)
\* lines 542-550: the first router, in key order, whose directory lists the
\* instance; "" if none
FindRouter(d, instance) ==
  LET hits == {i \in 1..Len(d) : instance \in d[i].dir}
  IN IF hits = {} THEN ""
     ELSE d[CHOOSE i \in hits : \A h \in hits : i <= h].routerID

\* a frame of connection k addressed to the router itself, of no handled
\* type, with forward u@client:/ and via v (NoRoute: none); the client gives
\* its id as the sender
RouteWSForward(k, u, v) ==
  LET r == conn[k].router
      loc == wsLocalClients[r]
      msg == Msg(nextMid + 1, "msg", Route("", "", HR),
                 Route(conn[k].id, "", "client"), v, Route(u, "", "client"),
                 NoBody)
      found == FindRouter(wsClients[r], u)
  IN
  /\ conn[k].st = "open"
  /\ Up(r)
  /\ nextMid < limit.msgs
  /\ nextMid' = nextMid + 1
  /\ IF loc[u] # 0
       THEN /\ sent' = WsSend(sent, loc[u],
                              [msg EXCEPT !.to = msg.forward,
                                          !.via = Route(r, "", HR)])
            /\ UNCHANGED <<lookups, queued, nEnq, rejections>>
       ELSE IF found # ""
       THEN /\ lookups' = [lookups EXCEPT ![r] =
                             Append(@, [msg |-> msg, found |-> found,
                                        instance |-> u])]
            /\ UNCHANGED <<sent, queued, nEnq, rejections>>
       ELSE /\ QueuerEnqueue(r, QueueKey(u), msg)
            /\ UNCHANGED <<sent, lookups>>
  /\ UNCHANGED <<status, conn, wsLocalClients, wsClients, chan, processing,
                 drains, replies, nReconnects, limit, statVars, logVars, store, routeVars,
                 httpVars>>

\* hydra.getServicePresence(this.serviceName): the running instances
Presence == {x \in Routers : Up(x)}

\* lines 553-568: the presence list arrives for the oldest pending lookup
PresenceResult(r) ==
  LET h == Head(lookups[r])
  IN
  /\ Up(r)
  /\ lookups[r] # <<>>
  /\ lookups' = [lookups EXCEPT ![r] = Tail(@)]
  /\ IF h.found \in Presence
       THEN /\ chan' = SendTo(chan, r, h.found,
                              [h.msg EXCEPT !.to = Route(h.found, "", HR)])
            /\ UNCHANGED <<queued, nEnq, rejections>>
       ELSE /\ QueuerEnqueue(r, QueueKey(h.instance), h.msg)
            /\ UNCHANGED chan
  /\ UNCHANGED <<status, conn, wsLocalClients, wsClients, processing, sent,
                 drains, replies, nextMid, nReconnects, limit, statVars, logVars, store,
                 routeVars, httpVars>>

(* ------------------- routeWSMessage: a client frame ------------------- *)

\* UMFMessage.parseRoute of a client's `to`: httpMethod is "" when the
\* string has no bracketed method; all fields "" when the field is absent
ToRoute(instance, service, httpMethod, apiRoute) ==
  [instance |-> instance, subID |-> "", service |-> service,
   httpMethod |-> httpMethod, apiRoute |-> apiRoute]
NoTo == ToRoute("", "", "", "")

\* HMAC-SHA-256 of the message under a key: equal only for equal key and
\* equal message
HMAC(secret, msg) == <<secret, msg>>
NoSig == <<>>

\* the data of one WebSocket frame: json is FALSE when safeJSONParse gives
\* nothing, hasBody is FALSE when the object has no body
Frame(json, hasBody, msg, signature) ==
  [json |-> json, hasBody |-> hasBody, msg |-> msg, signature |-> signature]

\* lines 393-407: the data parses and has to, from and body
WellFormed(f) ==
  f.json /\ f.msg.to # NoTo /\ f.msg.frm # NoRoute /\ f.hasBody

\* a gate that lets every frame pass
SignatureError_Off(cfg, f) == ""
\* lines 416-430: the text of the error when the frame is refused for its
\* signature, "" when the frame passes
SignatureError(cfg, f) ==
  IF ~cfg.forceMessageSignature THEN ""
  ELSE IF f.signature = NoSig THEN "Not a signed UMF message"
  ELSE IF f.signature # HMAC(cfg.signatureSharedSecret, f.msg)
    THEN "Invalid signed UMF message"
  ELSE ""

HasBrackets(to) == to.httpMethod # ""

\* a counter that counts an event twice
Log_Twice(stats, target) == Append(Append(stats, target), target)
\* Stats.log(target), as the list of the targets logged so far
Log(stats, target) == Append(stats, target)
Logged(stats, target) ==
  Cardinality({i \in 1..Len(stats) : stats[i] = target})

\* `No ${serviceName} instances available`
NoInstances(service) ==
  CASE service = "red" -> "No red instances available"
    [] service = "redux" -> "No redux instances available"
    [] OTHER -> "No instances available"

\* a router that sends the error frame and leaves the connection open
InvalidMessage_Open(k, text) ==
  /\ sent' = [sent EXCEPT
                ![k] = Append(@, ErrorFrame(conn[k].router, text))]
  /\ nextMid' = nextMid + 1
  /\ UNCHANGED <<status, conn, wsLocalClients, wsClients, chan, queued,
                 processing, drains, replies, lookups, nReconnects, nEnq,
                 limit, statVars, logVars, procVars, routeVars, httpVars>>

\* invalidMessage(msg, text); this.wsDisconnect(ws); return
InvalidMessage(k, text) ==
  LET r == conn[k].router
      id == conn[k].id
  IN
  /\ sent' = [sent EXCEPT ![k] = Append(@, ErrorFrame(r, text))]
  /\ conn' = [conn EXCEPT ![k].st = "closing"]
  /\ wsLocalClients' = [wsLocalClients EXCEPT ![r] = Unbind(@, id)]
  /\ wsClients' = [wsClients EXCEPT ![r] = UnbindDir(@, r, id)]
  /\ chan' = Broadcast(chan, r, UnbindGossip(r, id))
  /\ nextMid' = nextMid + 1
  /\ UNCHANGED <<status, queued, processing, drains, replies, lookups,
                 nReconnects, nEnq, limit, statVars, logVars, procVars, routeVars, httpVars>>

\* a reply of the router to the sender of msg: rmid is the mid of msg
Reply(to, frm, rmid, typ, body) ==
  [mid |-> 0, typ |-> typ, to |-> to, frm |-> frm, via |-> NoRoute,
   forward |-> NoRoute, body |-> body, rmid |-> rmid]

\* String.indexOf for the routes of the router API and the parts that
\* _handleRouterRequestWS looks for in them
ListRoute(thing) ==
  CASE thing = "routes" -> "/v1/router/list/routes"
    [] thing = "services" -> "/v1/router/list/services"
    [] thing = "nodes" -> "/v1/router/list/nodes"
    [] thing = "wsdir" -> "/v1/router/list/wsdir"
    [] OTHER -> ""
IndexOf(str, part) ==
  CASE part = str -> 0
    [] part = "/v1/router/list" /\ str = "/v1/router/list/routes" -> 0
    [] part = "/v1/router/list" /\ str = "/v1/router/list/services" -> 0
    [] part = "/v1/router/list" /\ str = "/v1/router/list/nodes" -> 0
    [] part = "/v1/router/list" /\ str = "/v1/router/list/wsdir" -> 0
    [] ListRoute(part) # "" /\ str = ListRoute(part) -> 16
    [] OTHER -> -1

\* lines 1042-1066: what _handleRouterRequestWS does for an apiRoute: the
\* handler whose result it sends, "refresh" for _refreshRoutes, which sends
\* nothing, or the error of lines 1068-1073
RouterResultWS(apiRoute) ==
  IF IndexOf(apiRoute, "/v1/router/list") > -1
    THEN IF IndexOf(apiRoute, "routes") > -1 THEN "routes"
         ELSE IF IndexOf(apiRoute, "services") > -1 THEN "services"
         ELSE IF IndexOf(apiRoute, "nodes") > -1 THEN "nodes"
         ELSE IF IndexOf(apiRoute, "wsdir") < -1 THEN "wsdir"
         ELSE "not routable"
  ELSE IF IndexOf(apiRoute, "/v1/router/clear") > -1 THEN "clear"
  ELSE IF IndexOf(apiRoute, "/v1/router/health") > -1 THEN "health"
  ELSE IF IndexOf(apiRoute, "/v1/router/refresh") > -1 THEN "refresh"
  ELSE IF IndexOf(apiRoute, "/v1/router/version") > -1 THEN "version"
  ELSE IF IndexOf(apiRoute, "/v1/router/stats") > -1 THEN "stats"
  ELSE "not routable"

\* _handleRouterRequestWS: the admin requests of a client
HandleRouterRequestWS(k, f) ==
  LET r == conn[k].router
      result == RouterResultWS(f.msg.to.apiRoute)
      responseMessage(body) ==
        Reply(Route(conn[k].id, "", "client"), Route(r, "", HR), -1, "", body)
  IN
  /\ nextMid' = nextMid + 1
  /\ IF result = "refresh"
       THEN /\ refreshes' = [refreshes EXCEPT ![r] = Append(@, "")]
            /\ UNCHANGED sent
       ELSE /\ sent' = WsSend(sent, k, responseMessage(result))
            /\ UNCHANGED refreshes
  /\ UNCHANGED <<status, conn, wsLocalClients, wsClients, chan, queued,
                 processing, drains, replies, lookups, nReconnects, nEnq,
                 limit, statVars, logVars, procVars, routerTable, serviceNames, registry, httpVars>>

\* wsRouteThroughHttp up to its await: hydra.makeAPIRequest(message)
WsRouteThroughHttp(k, f) ==
  /\ api' = Append(api, [router |-> conn[k].router, kind |-> "ws", ws |-> k,
                          msg |-> f.msg])
  /\ nextMid' = nextMid + 1
  /\ UNCHANGED <<status, conn, wsLocalClients, wsClients, chan, queued,
                 processing, sent, drains, replies, lookups, nReconnects,
                 nEnq, limit, statVars, logVars, procVars, routeVars, http, svcInbox, errorStats, config>>

\* case 'log': the router logs the frame and sends nothing
LogFrame(k, f) ==
  /\ LogIssue(conn[k].router, "info")
  /\ nextMid' = nextMid + 1
  /\ UNCHANGED <<status, conn, wsLocalClients, wsClients, chan, queued,
                 processing, sent, drains, replies, lookups, nReconnects,
                 nEnq, limit, statVars, procVars, routeVars, httpVars>>

\* case 'ping'
Pong(k, f) ==
  /\ sent' = WsSend(sent, k, Reply(f.msg.frm, NoRoute, f.msg.mid, "pong",
                                   "pong"))
  /\ nextMid' = nextMid + 1
  /\ UNCHANGED <<status, conn, wsLocalClients, wsClients, chan, queued,
                 processing, drains, replies, lookups, nReconnects, nEnq,
                 limit, statVars, logVars, procVars, routeVars, httpVars>>

\* the via tag that the router adds for connection k
ViaRoute(k) == Route(conn[k].router, conn[k].id, HR)

\* lines 583-590: the frame names an instance of the service
SendToInstance(k, f) ==
  /\ svcInbox' = Append(svcInbox, [f.msg EXCEPT !.via = ViaRoute(k)])
  /\ nextMid' = nextMid + 1
  /\ UNCHANGED <<status, conn, wsLocalClients, wsClients, chan, queued,
                 processing, sent, drains, replies, lookups, nReconnects,
                 nEnq, limit, statVars, logVars, procVars, routeVars, http, api, errorStats, config>>

\* line 591: hydra.getServicePresence(toRoute.serviceName); ws.id is read
\* when the promise resolves
GetServicePresence(k, f) ==
  /\ api' = Append(api, [router |-> conn[k].router, kind |-> "presence",
                          ws |-> k, msg |-> f.msg])
  /\ nextMid' = nextMid + 1
  /\ UNCHANGED <<status, conn, wsLocalClients, wsClients, chan, queued,
                 processing, sent, drains, replies, lookups, nReconnects,
                 nEnq, limit, statVars, logVars, procVars, routeVars, http, svcInbox, errorStats, config>>

\* lines 432-610: the frame passed the checks
Dispatch(k, f) ==
  LET to == f.msg.to
  IN
  IF HasBrackets(to)
    THEN IF to.service = HR THEN HandleRouterRequestWS(k, f)
                             ELSE WsRouteThroughHttp(k, f)
  ELSE IF to.service = HR
    THEN CASE f.msg.typ = "log" -> LogFrame(k, f)
           [] f.msg.typ = "ping" -> Pong(k, f)
           [] f.msg.typ = "reconnect" ->
                IF f.msg.body.id = "" THEN RouteWSReconnectNoId(k)
                                      ELSE RouteWSReconnect(k, f.msg.body.id)
           [] OTHER ->
                IF HasForward(f.msg)
                  THEN RouteWSForward(k, f.msg.forward.instance, f.msg.via)
                  ELSE InvalidMessage(k, "Unrecognized Hydra Router request")
  ELSE IF to.instance # "" THEN SendToInstance(k, f)
  ELSE GetServicePresence(k, f)

\* ws.on('message'): routeWSMessage(ws, message) for the frame f that the
\* client of connection k sends
RouteWSMessage(k, f) ==
  /\ conn[k].st = "open"
  /\ Up(conn[k].router)
  /\ nextMid < limit.msgs
  /\ IF ~WellFormed(f) THEN InvalidMessage(k, "Invalid UMF message")
     ELSE IF SignatureError(config, f) # ""
       THEN InvalidMessage(k, SignatureError(config, f))
     ELSE Dispatch(k, f)

\* the promise of the i-th unresolved makeAPIRequest of wsRouteThroughHttp
\* settles: resolved with a result or with an error status, or rejected
\* (timeout, transport failure)
Outcomes == {"ok", "status", "rejected"}
\* a router that sends the reply twice
WsApiSend_Twice(s, k, m) == WsSend(WsSend(s, k, m), k, m)
\* this._sendWSMessage(ws, replyMessage.toJSON())
WsApiSend(s, k, m) == WsSend(s, k, m)
WsApiResult(i, outcome) ==
  LET a == api[i]
      replyMessage(body) ==
        Reply(a.msg.frm, a.msg.to, a.msg.mid, "", body)
  IN
  /\ i \in 1..Len(api)
  /\ a.kind = "ws"
  /\ Up(a.router)
  /\ api' = [j \in 1..(Len(api) - 1) |-> IF j < i THEN api[j] ELSE api[j + 1]]
  /\ IF outcome = "rejected"
       THEN /\ errorStats' = [errorStats EXCEPT
                                ![a.router] = Log(@, a.msg.to.service)]
            /\ LogIssue(a.router, "fatal")
            /\ sent' = WsApiSend(sent, a.ws, replyMessage("error"))
       ELSE /\ sent' = WsApiSend(sent, a.ws, replyMessage(outcome))
            /\ UNCHANGED <<errorStats, logVars>>
  /\ UNCHANGED <<status, conn, wsLocalClients, wsClients, chan, queued,
                 processing, drains, replies, lookups, nextMid, nReconnects,
                 nEnq, limit, statVars, procVars, routeVars, http, svcInbox,
                 config>>

\* .then((results) => ...) of the i-th unresolved getServicePresence: the
\* registry reports n live instances of the service
ServicePresenceResult(i, n) ==
  LET a == api[i]
      k == a.ws
      service == a.msg.to.service
  IN
  /\ i \in 1..Len(api)
  /\ a.kind = "presence"
  /\ Up(a.router)
  /\ api' = [j \in 1..(Len(api) - 1) |-> IF j < i THEN api[j] ELSE api[j + 1]]
  /\ IF n = 0
       THEN /\ errorStats' = [errorStats EXCEPT ![a.router] = Log(@, service)]
            /\ sent' = WsSend(sent, k, ErrorFrame(a.router,
                                                  NoInstances(service)))
            /\ UNCHANGED svcInbox
       ELSE /\ svcInbox' = Append(svcInbox,
                                  [a.msg EXCEPT !.to.instance = "i1",
                                                !.via = ViaRoute(k)])
            /\ UNCHANGED <<errorStats, sent>>
  /\ UNCHANGED <<status, conn, wsLocalClients, wsClients, chan, queued,
                 processing, drains, replies, lookups, nextMid, nReconnects,
                 nEnq, limit, statVars, logVars, procVars, routeVars, http, config>>

(* --------------------------- _refreshRoutes --------------------------- *)
\* routesObj[serviceName] of the registry, <<>> if the service has none
RoutesOf(routesObj, name) ==
  IF \E i \in 1..Len(routesObj) : routesObj[i].serviceName = name
    THEN routesObj[CHOOSE i \in 1..Len(routesObj) :
                     routesObj[i].serviceName = name].routes
    ELSE <<>>

\* list q without its i-th element
Without(q, i) == [j \in 1..(Len(q) - 1) |-> IF j < i THEN q[j] ELSE q[j + 1]]

\* the oldest unresolved _refreshRoutes(service) of router r gets the reply
\* of hydra.getAllServiceRoutes() and runs to its end
RefreshRoutes(r) ==
  /\ Up(r)
  /\ refreshes[r] # <<>>
  /\ refreshes' = [refreshes EXCEPT ![r] = Tail(@)]
  /\ serviceNames' = [serviceNames EXCEPT ![r] = AddNames(@, registry)]
  /\ routerTable' = [routerTable EXCEPT
                       ![r] = RefreshTable(@, registry, Head(refreshes[r]))]
  /\ UNCHANGED <<status, conn, wsLocalClients, wsClients, chan, queued,
                 processing, sent, drains, replies, lookups, nextMid,
                 nReconnects, nEnq, limit, statVars, logVars, procVars, registry, httpVars>>

\* hydra.getAllServiceRoutes() of the oldest unresolved _refreshRoutes is
\* rejected: the catch block logs the error, nothing else changes
RefreshRoutesFailed(r) ==
  /\ Up(r)
  /\ refreshes[r] # <<>>
  /\ refreshes' = [refreshes EXCEPT ![r] = Tail(@)]
  /\ LogIssues(r, <<"fatal", "fatal">>)
  /\ UNCHANGED <<status, conn, wsLocalClients, wsClients, chan, queued,
                 processing, sent, drains, replies, lookups, nextMid,
                 nReconnects, nEnq, limit, statVars, procVars, routerTable,
                 serviceNames, registry, httpVars>>

\* a service registers its routes with hydra; they replace the routes that
\* the registry had for the service
Register(name, routes) ==
  /\ RoutesOf(registry, name) # routes
  /\ registry' = TablePut(registry, name, routes)
  /\ UNCHANGED <<status, conn, wsLocalClients, wsClients, chan, queued,
                 processing, sent, drains, replies, lookups, nextMid,
                 nReconnects, nEnq, limit, statVars, logVars, procVars, routerTable, serviceNames,
                 refreshes, httpVars>>

\* a service removes its routes: the registry has no entry for it any more
FlushRoutes(name) ==
  /\ \E i \in 1..Len(registry) : registry[i].serviceName = name
  /\ registry' = SelectSeq(registry, LAMBDA e : e.serviceName # name)
  /\ UNCHANGED <<status, conn, wsLocalClients, wsClients, chan, queued,
                 processing, sent, drains, replies, lookups, nextMid,
                 nReconnects, nEnq, limit, statVars, logVars, procVars, routerTable, serviceNames,
                 refreshes, httpVars>>

(* ---------------------------- routeRequest ---------------------------- *)
\* a URL, a pathname or a referer is the list that split('/') gives:
\* "/items/7" is <<"", "items", "7">>, "" is <<"">>

\* route-parser: the pattern matches the pathname, segment by segment
Match(pattern, pathname) ==
  /\ Len(pattern) = Len(pathname)
  /\ \A i \in 1..Len(pattern) :
        \/ pattern[i] = pathname[i]
        \/ pattern[i] = Param /\ pathname[i] # ""

\* what the match gives for the parameter of the pattern, "" without one
ParamOf(pattern, pathname) ==
  IF \E i \in 1..Len(pattern) : pattern[i] = Param
    THEN pathname[CHOOSE i \in 1..Len(pattern) : pattern[i] = Param]
    ELSE ""

MatchResult(serviceName, pattern, params, requestUrl) ==
  [serviceName |-> serviceName, pattern |-> pattern, params |-> params,
   requestUrl |-> requestUrl]
NoMatch == MatchResult("", <<>>, "", <<>>)

\* a lookup that prefers the last route of a service that matches
MatchRoute_Last(t, pathname) ==
  LET hits(i) == {j \in 1..Len(t[i].routes) :
                    Match(t[i].routes[j].pattern, pathname)}
      svcs == {i \in 1..Len(t) : hits(i) # {}}
  IN IF svcs = {} THEN NoMatch
     ELSE LET i == CHOOSE x \in svcs : \A y \in svcs : x <= y
              j == CHOOSE x \in hits(i) : \A y \in hits(i) : x >= y
          IN MatchResult(t[i].serviceName, t[i].routes[j].pattern,
                         ParamOf(t[i].routes[j].pattern, pathname), pathname)

\* _matchRoute: the services in key order, the routes of each in list order;
\* the first route that matches
MatchRoute(t, pathname) ==
  LET hits(i) == {j \in 1..Len(t[i].routes) :
                    Match(t[i].routes[j].pattern, pathname)}
      svcs == {i \in 1..Len(t) : hits(i) # {}}
  IN IF svcs = {} THEN NoMatch
     ELSE LET i == CHOOSE x \in svcs : \A y \in svcs : x <= y
              j == CHOOSE x \in hits(i) : \A y \in hits(i) : x <= y
          IN MatchResult(t[i].serviceName, t[i].routes[j].pattern,
                         ParamOf(t[i].routes[j].pattern, pathname), pathname)

\* segment seg of a string starts with name: the pairs of names where one
\* is the beginning of the other
StartsWith(seg, name) ==
  seg = name \/ <<name, seg>> \in {<<"red", "redux">>}

\* referer.indexOf(`/${serviceName}`) > -1: a segment after a slash starts
\* with the name
RefererHas(referer, name) ==
  \E i \in 2..Len(referer) : StartsWith(referer[i], name)

\* segs.splice(1, 1); requestUrl = segs.join('/'); '/' becomes ''
DropFirst(segs) ==
  LET rest == <<segs[1]>> \o SubSeq(segs, 3, Len(segs))
  IN IF rest = <<"", "">> THEN <<"">> ELSE rest

\* a fallback that looks at the first segment before the referer
Fallback_SegmentFirst(names, req) ==
  LET byRef == {i \in 1..Len(names) : RefererHas(req.referer, names[i])}
      known(n) == \E i \in 1..Len(names) : names[i] = n
  IN IF Len(req.url) >= 2 /\ known(req.url[2])
       THEN MatchResult(req.url[2], <<>>, "", DropFirst(req.url))
     ELSE IF byRef # {}
       THEN MatchResult(names[CHOOSE i \in byRef : \A j \in byRef : i <= j],
                        <<>>, "", req.url)
     ELSE NoMatch

\* lines 714-738: no route matched; names is Object.keys(this.serviceNames)
Fallback(names, req) ==
  LET byRef == {i \in 1..Len(names) : RefererHas(req.referer, names[i])}
      known(n) == \E i \in 1..Len(names) : names[i] = n
  IN IF byRef # {}
       THEN MatchResult(names[CHOOSE i \in byRef : \A j \in byRef : i <= j],
                        <<>>, "", req.url)
     ELSE IF Len(req.url) >= 2 /\ known(req.url[2])
       THEN MatchResult(req.url[2], <<>>, "", DropFirst(req.url))
     ELSE NoMatch

\* lines 712-738: the service of the request and the URL that is forwarded
Attribute(t, names, req) ==
  IF MatchRoute(t, req.url) # NoMatch THEN MatchRoute(t, req.url)
  ELSE Fallback(names, req)

\* request.method.toLowerCase()
ToLowerCase(method) ==
  CASE method = "GET" -> "get"
    [] method = "POST" -> "post"
    [] method = "PUT" -> "put"
    [] method = "OPTIONS" -> "options"
    [] OTHER -> method

\* an envelope that keeps the method as the request has it
Envelope_AsIs(r, serviceName, method, requestUrl) ==
  [to |-> ToRoute("", serviceName, method, requestUrl),
   frm |-> Route(r, "", HR)]
\* lines 795-799: the message of the API request
Envelope(r, serviceName, method, requestUrl) ==
  [to |-> ToRoute("", serviceName, ToLowerCase(method), requestUrl),
   frm |-> Route(r, "", HR)]

\* an HTTP request: gzip is "bad" when the body cannot be gunzipped, host is
\* its Host header and token the token of its query string (<<>>: none)
Request(method, url, referer, gzip) ==
  [method |-> method, url |-> url, referer |-> referer, gzip |-> gzip,
   host |-> "gateway:5353", token |-> <<>>]

\* Utils.isUUID4(str): 8-4-4-4-12 hex digits of any case, version 4,
\* variant 8, 9, a or b
HexDigits ==
  {"0", "1", "2", "3", "4", "5", "6", "7", "8", "9", "a", "b", "c", "d", "e",
   "f", "A", "B", "C", "D", "E", "F"}
IsUUID4(str) ==
  /\ Len(str) = 36
  /\ \A i \in 1..Len(str) :
       CASE i \in {9, 14, 19, 24} -> str[i] = "-"
         [] i = 15 -> str[i] = "4"
         [] i = 20 -> str[i] \in {"8", "9", "a", "b", "A", "B"}
         [] OTHER -> str[i] \in HexDigits

\* the suffix of the last segment of a path, as String.endsWith sees it
Suffix(segment) ==
  CASE segment \in {"index.css"} -> ".css"
    [] segment \in {"index.js", "red.js"} -> ".js"
    [] segment \in {"glyphicons-halflings-regular.ttf"} -> ".ttf"
    [] segment \in {"glyphicons-halflings-regular.woff"} -> ".woff"
    [] segment \in {"glyphicons-halflings-regular.woff2"} -> ".woff2"
    [] OTHER -> ""
StaticSuffixes == {".css", ".js", ".ttf", ".woff", ".woff2"}

\* lines 907-925: allowRouterCall of _handleRouterRequest
AllowRouterCall(cfg, req) ==
  LET enabled == ~("disableRouterEndpoint" \in DOMAIN cfg
                     /\ cfg.disableRouterEndpoint = TRUE)
      blank == "routerToken" \in DOMAIN cfg /\ cfg.routerToken = <<>>
      byToken == IF req.token # <<>>
                   THEN /\ IsUUID4(req.token)
                        /\ "routerToken" \in DOMAIN cfg
                        /\ req.token = cfg.routerToken
                   ELSE FALSE
  IN \/ IF enabled /\ ~blank THEN byToken ELSE enabled
     \/ Suffix(req.url[Len(req.url)]) \in StaticSuffixes

\* lines 927-930: the request goes on to the handler of its route
RouterCallServed(cfg, req) ==
  ~(req.host # "localhost" /\ ~AllowRouterCall(cfg, req))

\* line 112, serverResponse.enableCORS(true, this.config.cors): once init
\* has run, the response helper adds its CORS headers to what it sends
CorsEnabled(r) == status[r] # "down"

\* line 754: the body of the request is read before it is forwarded
HasBody(req) == req.method \in {"POST", "PUT"}

\* a router that takes no request for a preflight request
Preflight_Off(req) == FALSE
\* line 668: request.method === 'OPTIONS'
Preflight(req) == req.method = "OPTIONS"

\* the record of a request: the attribution, the API requests made for it
\* and the status of the response (0: none yet)
Handled(r, req, m, calls, statusCode) ==
  [router |-> r, req |-> req, serviceName |-> m.serviceName,
   pattern |-> m.pattern, requestUrl |-> m.requestUrl, calls |-> calls,
   statusCode |-> statusCode, cors |-> CorsEnabled(r)]

RefreshPattern == <<"", "v1", "router", "refresh", Param>>

\* routeRequest(request, response) of router r, with _handleRouterRequest
\* and _processHTTPRequest up to its await
RouteRequest(r, req) ==
  LET m == Attribute(routerTable[r], serviceNames[r], req)
      e == Envelope(r, m.serviceName, req.method, m.requestUrl)
      toService == ~Preflight(req) /\ m # NoMatch /\ m.serviceName # HR
      gunzipFailed == HasBody(req) /\ req.gzip = "bad"
  IN
  /\ Up(r)
  /\ Len(http) < limit.msgs
  /\ IF toService /\ ~gunzipFailed
       THEN /\ httpStats' = [httpStats EXCEPT
                               ![r] = StatsLog(@, GetSecond(clock),
                                               m.serviceName)]
            /\ logCalls' = [logCalls EXCEPT ![r] = Called(@, m.serviceName)]
       ELSE UNCHANGED <<httpStats, logCalls>>
  /\ IF toService /\ gunzipFailed THEN LogIssue(r, "error")
                                  ELSE UNCHANGED logVars
  /\ IF Preflight(req)
       THEN /\ http' = Append(http, Handled(r, req, NoMatch, <<>>, 204))
            /\ UNCHANGED <<api, refreshes>>
     ELSE IF m = NoMatch
       THEN /\ http' = Append(http, Handled(r, req, m, <<>>, 404))
            /\ UNCHANGED <<api, refreshes>>
     ELSE IF m.serviceName = HR /\ ~RouterCallServed(config, req)
       THEN /\ http' = Append(http, Handled(r, req, m, <<>>, 404))
            /\ UNCHANGED <<api, refreshes>>
     ELSE IF m.serviceName = HR
       THEN /\ http' = Append(http, Handled(r, req, m, <<>>, 200))
            /\ refreshes' =
                 IF m.pattern = RefreshPattern
                   THEN [refreshes EXCEPT ![r] = Append(@, m.params)]
                   ELSE refreshes
            /\ UNCHANGED api
     ELSE IF gunzipFailed
       THEN /\ http' = Append(http, Handled(r, req, m, <<>>, 0))
            /\ UNCHANGED <<api, refreshes>>
     ELSE /\ http' = Append(http, Handled(r, req, m, <<e>>, 0))
          /\ api' = Append(api, [router |-> r, kind |-> "http",
                                  n |-> Len(http) + 1, msg |-> e])
          /\ UNCHANGED refreshes
  /\ UNCHANGED <<status, conn, wsLocalClients, wsClients, chan, queued,
                 processing, sent, drains, replies, lookups, nextMid,
                 nReconnects, nEnq, limit, clock, procVars, routerTable,
                 serviceNames, registry, svcInbox, errorStats, config>>

\* the status of the response for each way the API request settles
StatusOf(outcome) ==
  CASE outcome = "ok" -> 200
    [] outcome = "status" -> 404
    [] OTHER -> 503

\* _processHTTPRequest after its await, for the i-th unresolved request
HttpApiResult(i, outcome) ==
  LET a == api[i]
  IN
  /\ i \in 1..Len(api)
  /\ a.kind = "http"
  /\ Up(a.router)
  /\ api' = Without(api, i)
  /\ http' = [http EXCEPT ![a.n].statusCode = StatusOf(outcome)]
  /\ errorStats' =
       IF outcome = "status"
         THEN [errorStats EXCEPT ![a.router] = Log(@, a.msg.to.service)]
         ELSE errorStats
  /\ CASE outcome = "status" -> LogIssue(a.router, "error")
       [] outcome = "rejected" -> LogIssues(a.router, <<"fatal", "fatal">>)
       [] OTHER -> UNCHANGED logVars
  /\ UNCHANGED <<status, conn, wsLocalClients, wsClients, chan, queued,
                 processing, sent, drains, replies, lookups, nextMid,
                 nReconnects, nEnq, limit, statVars, procVars, routeVars,
                 svcInbox, config>>

(* ----------------------- the registry, the requests ------------------- *)
ItemPattern == <<"", "items", Param>>
NewItemPattern == <<"", "items", "new">>
\* the routes that the router registers for itself
RouterRoutes == <<RouteString("get", RefreshPattern)>>
Entry(name, routes) == [serviceName |-> name, routes |-> routes]
\* what the registry may hold when the router starts
Registries ==
  {<<Entry(HR, RouterRoutes),
     Entry("red", <<RouteString("get", ItemPattern),
                    RouteString("post", NewItemPattern)>>),
     Entry("redux", <<RouteString("get", NewItemPattern)>>)>>,
   <<Entry(HR, RouterRoutes),
     Entry("redux", <<RouteString("get", NewItemPattern)>>),
     Entry("red", <<RouteString("get", NewItemPattern),
                    RouteString("get", ItemPattern)>>)>>,
   <<Entry("redux", <<>>), Entry("red", <<>>), Entry(HR, RouterRoutes)>>,
   <<Entry(HR, RouterRoutes),
     Entry("red", <<RouteString("post", NewItemPattern)>>),
     Entry("redux", <<RouteString("get", NewItemPattern)>>)>>}

\* the route lists that a service may register
RouteLists ==
  {<<RouteString("get", ItemPattern)>>,
   <<RouteString("get", NewItemPattern), RouteString("get", ItemPattern)>>}
RefreshBodies ==
  {[NoBody EXCEPT !.action = "refresh", !.serviceName = name] :
     name \in ServiceNameSet}
RouteRequests ==
  {Request("GET", u, <<>>, "ok") :
     u \in {<<"", "items", "new">>, <<"", "v1", "router", "refresh", "red">>}}

Urls ==
  {<<"", "items", "new">>, <<"", "items", "7">>, <<"", "red">>,
   <<"", "red", "">>, <<"", "red", "items">>, <<"", "redux", "items">>,
   <<"", "other">>, <<"", "v1", "router", "refresh", "red">>}
\* no referer, and the referers http://host/redux/page, http://host/other
Referers ==
  {<<>>, <<"http:", "", "host", "redux", "page">>,
   <<"http:", "", "host", "other">>}
Requests ==
  {Request(x[1], u, f, x[2]) :
     x \in {<<"GET", "ok">>, <<"POST", "ok">>, <<"POST", "bad">>},
     u \in Urls, f \in Referers}
    \cup {Request("PUT", <<"", "items", "7">>, <<>>, g) : g \in {"ok", "bad"}}
    \cup {Request("OPTIONS", u, <<>>, "ok") :
            u \in {<<"", "items", "7">>, <<"", "other">>,
                   <<"", "v1", "router", "refresh", "red">>}}

(* ------------------------- the clients' frames ------------------------ *)
\* what a client puts into a frame besides its mid and its from
Shape(to, typ, forward, body) ==
  [to |-> to, typ |-> typ, forward |-> forward, body |-> body]
Shapes ==
  {Shape(ToRoute("", ServiceNameList[1], "get", "/v1/items"), "", NoRoute,
         NoBody),
   Shape(ToRoute("", HR, "get", "/v1/router/refresh"), "", NoRoute, NoBody),
   Shape(ToRoute("", HR, "get", "/v1/router/version"), "", NoRoute, NoBody),
   Shape(ToRoute("", ServiceNameList[1], "", "/"), "", NoRoute, NoBody),
   Shape(ToRoute("i1", ServiceNameList[1], "", "/"), "", NoRoute, NoBody),
   Shape(ToRoute("", HR, "", "/"), "ping", NoRoute, NoBody),
   Shape(ToRoute("", HR, "", "/"), "reconnect", NoRoute,
         [NoBody EXCEPT !.id = ShortIDs[1]]),
   Shape(ToRoute("", HR, "", "/"), "reconnect", NoRoute, NoBody),
   Shape(ToRoute("", HR, "", "/"), "msg", Route(ShortIDs[1], "", "client"),
         NoBody),
   Shape(ToRoute("", HR, "", "/"), "msg", NoRoute, NoBody)}

FrameMsg(k, sh) ==
  Msg(nextMid + 1, sh.typ, sh.to, Route(conn[k].id, "", "client"), NoRoute,
      sh.forward, sh.body)

\* no signature, the signature under the shared secret, and a signature
\* under another key
Signatures(m) ==
  {NoSig, HMAC(config.signatureSharedSecret, m), HMAC("guess", m)}

\* the frames that the client of connection k may send: the messages above
\* under each signature, data that is no JSON, and objects that lack to,
\* from or body
ClientFrames(k) ==
  LET msgs == {FrameMsg(k, sh) : sh \in Shapes}
      m0 == FrameMsg(k, CHOOSE sh \in Shapes : sh.to.service # HR)
  IN UNION {{Frame(TRUE, TRUE, m, sig) : sig \in Signatures(m)} : m \in msgs}
       \cup {Frame(FALSE, FALSE, Null, NoSig),
             Frame(TRUE, TRUE, [m0 EXCEPT !.to = NoTo], NoSig),
             Frame(TRUE, TRUE, [m0 EXCEPT !.frm = NoRoute], NoSig),
             Frame(TRUE, FALSE, m0, NoSig)}

(* --------------------------- specifications --------------------------- *)
Next ==
  \/ \E r \in Routers : Start(r) \/ Exit(r)
  \/ \E r \in Routers, k \in Conns : Connect(r, k)
  \/ \E k \in Conns : CloseEvent(k) \/ RouteWSReconnectNoId(k)
  \/ \E k \in Conns, c \in Ids : RouteWSReconnect(k, c)
  \/ \E i \in 1..MaxReconnects : Tick(i)
  \/ \E r \in Routers : Resolve(r) \/ PresenceResult(r)
  \/ \E s \in Senders, r \in Routers : HandleIncomingChannelMessage(s, r)
  \/ \E r \in Routers :
       \E v \in ViaTags(r) \cup {NoRoute}, f \in Forwards \cup {NoRoute},
          b \in Bodies : ServiceSend(r, v, f, b)
  \/ \E k \in Conns, u \in IssuedIds :
       \E v \in ViaTags(conn[k].router) \cup {NoRoute} :
          RouteWSForward(k, u, v)
  \/ \E r \in Routers : Shutdown(r) \/ RefreshRoutes(r)
  \/ \E name \in ServiceNameSet, routes \in RouteLists : Register(name, routes)
  \/ \E k \in Conns : \E f \in ClientFrames(k) : RouteWSMessage(k, f)
  \/ \E i \in 1..(2 * MaxMsgs), o \in Outcomes :
        WsApiResult(i, o) \/ HttpApiResult(i, o)
  \/ \E i \in 1..(2 * MaxMsgs), n \in 0..1 : ServicePresenceResult(i, n)
  \/ \E r \in Routers, req \in Requests : RouteRequest(r, req)

Spec == Init /\ [][Next]_vars

\* the client directory and its gossip: no messages, the queues stay empty
InitDir ==
  InitWith([routers |-> MaxRouters, conns |-> DirConns,
            reconnects |-> DirReconnects, msgs |-> 0])
NextDir ==
  \/ \E r \in Routers : Start(r) \/ Exit(r)
  \/ \E r \in Routers, k \in Conns : Connect(r, k)
  \/ \E k \in Conns : CloseEvent(k) \/ RouteWSReconnectNoId(k)
  \/ \E k \in Conns, c \in Ids : RouteWSReconnect(k, c)
  \/ \E s \in Senders, r \in Routers : HandleIncomingChannelMessage(s, r)
SpecDir == InitDir /\ [][NextDir]_vars

\* the offline queue and the reconnect drain on one router: services send
\* replies that carry the via tag of the first client, and clients reconnect
\* with that id
InitDrain ==
  InitWith([routers |-> 1, conns |-> DrainConns,
            reconnects |-> DrainReconnects, msgs |-> DrainMsgs])
NextDrain ==
  \/ \E r \in Routers : Start(r)
  \/ \E r \in Routers, k \in Conns : Connect(r, k)
  \/ \E k \in Conns : CloseEvent(k)
  \/ \E k \in Conns : RouteWSReconnect(k, ShortIDs[1])
  \/ \E i \in 1..MaxReconnects : Tick(i)
  \/ \E r \in Routers : Resolve(r)
  \/ \E s \in Senders, r \in Routers : HandleIncomingChannelMessage(s, r)
  \/ \E r \in Routers :
        ServiceSend(r, Route(r, ShortIDs[1], HR), NoRoute, NoBody)
SpecDrain == InitDrain /\ [][NextDrain]_vars

\* routing of messages that carry via / forward between two routers
InitFwd ==
  InitWith([routers |-> MaxRouters, conns |-> FwdConns, reconnects |-> 0,
            msgs |-> FwdMsgs])
NextFwd ==
  \/ \E r \in Routers : Start(r) \/ Exit(r)
  \/ \E r \in Routers, k \in Conns : Connect(r, k)
  \/ \E k \in Conns : CloseEvent(k)
  \/ \E r \in Routers : PresenceResult(r)
  \/ \E s \in Senders, r \in Routers : HandleIncomingChannelMessage(s, r)
  \/ \E r \in Routers :
       \E v \in ViaTags(r) \cup {NoRoute}, f \in Forwards \cup {NoRoute},
          b \in Bodies : ServiceSend(r, v, f, b)
  \/ \E k \in Conns, u \in IssuedIds :
       \E v \in ViaTags(conn[k].router) \cup {NoRoute} :
          RouteWSForward(k, u, v)
SpecFwd == InitFwd /\ [][NextFwd]_vars

\* the gossip handler alone: a router receives wsdir.add / del / rem / dir
\* messages of any content from a peer whose process is not part of the run
PeerIds == {ShortIDs[i] : i \in 1..GossipIds}
PeerMsgs(s) ==
  {Gossip(t, s, c, {}) : t \in {"wsdir.add", "wsdir.del"}, c \in PeerIds}
    \cup {Gossip("wsdir.rem", s, "", {})}
    \cup {Gossip("wsdir.dir", s, "", D) : D \in SUBSET PeerIds}
PeerGossip(s, r, m) ==
  /\ Up(r)
  /\ s # r
  /\ nextMid < limit.msgs
  /\ nextMid' = nextMid + 1
  /\ chan' = [chan EXCEPT ![<<s, r>>] = Append(@, m)]
  /\ UNCHANGED <<status, conn, wsLocalClients, wsClients, queued, processing,
                 sent, drains, replies, lookups, nReconnects, nEnq, limit, statVars, logVars, procVars, routeVars, httpVars>>
InitGossip ==
  InitWith([routers |-> 1, conns |-> 0, reconnects |-> 0, msgs |-> GossipMsgs])
NextGossip ==
  \/ \E r \in Routers : Start(r)
  \/ \E s \in Routers, r \in Routers : \E m \in PeerMsgs(s) : PeerGossip(s, r, m)
  \/ \E s \in Senders, r \in Routers : HandleIncomingChannelMessage(s, r)
SpecGossip == InitGossip /\ [][NextGossip]_vars

\* the frames of the clients of one router, with forceMessageSignature on
\* or off
InitFrames ==
  \E force \in BOOLEAN :
     InitConfig([routers |-> 1, conns |-> FrameConns,
                 reconnects |-> FrameReconnects, msgs |-> FrameMsgs],
                [DefaultConfig EXCEPT !.forceMessageSignature = force], <<>>)
NextFrames ==
  \/ \E r \in Routers : Start(r)
  \/ \E r \in Routers, k \in Conns : Connect(r, k)
  \/ \E k \in Conns : CloseEvent(k)
  \/ \E k \in Conns : \E f \in ClientFrames(k) : RouteWSMessage(k, f)
  \/ \E i \in 1..FrameMsgs, o \in Outcomes : WsApiResult(i, o)
  \/ \E i \in 1..FrameMsgs, n \in 0..1 : ServicePresenceResult(i, n)
  \/ \E i \in 1..MaxReconnects : Tick(i)
  \/ \E r \in Routers : Resolve(r)
SpecFrames == InitFrames /\ [][NextFrames]_vars

\* HTTP requests to one router whose registry does not change
InitHttp ==
  \E reg \in Registries :
     InitConfig([routers |-> 1, conns |-> 0, reconnects |-> 0,
                 msgs |-> HttpMsgs], DefaultConfig, reg)
NextHttp ==
  \/ \E r \in Routers : Start(r)
  \/ \E r \in Routers : RefreshRoutes(r)
  \/ \E r \in Routers, req \in Requests : RouteRequest(r, req)
  \/ \E i \in 1..HttpMsgs, o \in Outcomes : HttpApiResult(i, o)
SpecHttp == InitHttp /\ [][NextHttp]_vars

\* requests for the router's own routes under each configuration of the
\* router API
StaticPattern == <<"", "index.css">>
VersionPattern == <<"", "v1", "router", "version">>
AdminRoutes ==
  <<RouteString("get", StaticPattern), RouteString("get", VersionPattern),
    RouteString("get", RefreshPattern)>>
\* a token of the form of a UUID with the given version digit
Repeat(c, n) == [i \in 1..n |-> c]
UUID(version, c) ==
  Repeat(c, 8) \o <<"-">> \o Repeat(c, 4) \o <<"-", version>> \o Repeat(c, 3)
    \o <<"-", "a">> \o Repeat(c, 3) \o <<"-">> \o Repeat(c, 12)
Tokens == {UUID("4", "c"), UUID("4", "D"), UUID("1", "c"), <<"s", "e", "c">>}
RouterTokens == {<<>>, UUID("4", "c"), UUID("1", "c")}
\* config.json with both keys, and without the key routerToken
AdminConfigs ==
  {[DefaultConfig EXCEPT !.disableRouterEndpoint = d, !.routerToken = t] :
     d \in BOOLEAN, t \in RouterTokens}
    \cup {[forceMessageSignature |-> FALSE, signatureSharedSecret |-> "secret",
           disableRouterEndpoint |-> FALSE]}
Hosts == {"localhost", "localhost:5353", "gateway:5353"}
AdminUrls ==
  {<<"", "index.css">>, <<"", "v1", "router", "version">>,
   <<"", "v1", "router", "refresh", "red">>,
   <<"", "v1", "router", "refresh", "red.js">>}
AdminRequests ==
  {[Request("GET", u, <<>>, "ok") EXCEPT !.host = h, !.token = t] :
     u \in AdminUrls, h \in Hosts, t \in Tokens \cup {<<>>}}
InitAdmin ==
  \E cfg \in AdminConfigs :
     InitConfig([routers |-> 1, conns |-> 0, reconnects |-> 0,
                 msgs |-> AdminMsgs], cfg,
                <<Entry(HR, AdminRoutes),
                  Entry("red", <<RouteString("get", ItemPattern)>>)>>)
NextAdmin ==
  \/ \E r \in Routers : Start(r)
  \/ \E r \in Routers : RefreshRoutes(r)
  \/ \E r \in Routers, req \in AdminRequests : RouteRequest(r, req)
SpecAdmin == InitAdmin /\ [][NextAdmin]_vars

\* the router API over a client connection under each configuration of the
\* router API: frames whose to carries a method and names the router
AdminWsConns == 1
AdminWsMsgs == 2
ApiRoutesWS ==
  {"/v1/router/list/routes", "/v1/router/list/services",
   "/v1/router/list/nodes", "/v1/router/list/wsdir", "/v1/router/clear",
   "/v1/router/health", "/v1/router/refresh", "/v1/router/version",
   "/v1/router/stats", "/v1/router/log", "/v1/items"}
AdminFrames(k) ==
  {Frame(TRUE, TRUE,
         FrameMsg(k, Shape(ToRoute("", HR, "get", a), "", NoRoute, NoBody)),
         NoSig) : a \in ApiRoutesWS}
InitAdminWS ==
  \E cfg \in AdminConfigs :
     InitConfig([routers |-> 1, conns |-> AdminWsConns, reconnects |-> 0,
                 msgs |-> AdminWsMsgs], cfg,
                <<Entry(HR, AdminRoutes),
                  Entry("red", <<RouteString("get", ItemPattern)>>)>>)
NextAdminWS ==
  \/ \E r \in Routers : Start(r)
  \/ \E r \in Routers, k \in Conns : Connect(r, k)
  \/ \E r \in Routers : RefreshRoutes(r)
  \/ \E k \in Conns : \E f \in AdminFrames(k) : RouteWSMessage(k, f)
SpecAdminWS == InitAdminWS /\ [][NextAdminWS]_vars

\* HTTP requests for two services while the seconds of the hour pass
StatsRequests ==
  {Request("GET", u, <<>>, "ok") :
     u \in {<<"", "items", "7">>, <<"", "redux", "items">>}}
InitStats ==
  InitConfig([routers |-> 1, conns |-> 0, reconnects |-> 0,
              msgs |-> StatsMsgs], DefaultConfig,
             <<Entry(HR, RouterRoutes),
               Entry("red", <<RouteString("get", ItemPattern)>>),
               Entry("redux", <<>>)>>)
NextStats ==
  \/ \E r \in Routers : Start(r)
  \/ \E r \in Routers : RefreshRoutes(r)
  \/ \E r \in Routers, req \in StatsRequests : RouteRequest(r, req)
  \/ \E i \in 1..StatsMsgs : HttpApiResult(i, "ok")
  \/ ClockTick
SpecStats == InitStats /\ [][NextStats]_vars

\* clients that send log frames and pings while the timer of log() runs
IssueFrames(k) ==
  {Frame(TRUE, TRUE,
         FrameMsg(k, Shape(ToRoute("", HR, "", "/"), typ, NoRoute, NoBody)),
         NoSig) : typ \in {"log", "ping"}}
InitIssues ==
  InitConfig([routers |-> 1, conns |-> IssueConns, reconnects |-> 0,
              msgs |-> IssueMsgs], DefaultConfig, <<>>)
NextIssues ==
  \/ \E r \in Routers : Start(r)
  \/ \E r \in Routers, k \in Conns : Connect(r, k)
  \/ \E k \in Conns : \E f \in IssueFrames(k) : RouteWSMessage(k, f)
  \/ \E r \in Routers : IssueLogCleanup(r)
SpecIssues == InitIssues /\ [][NextIssues]_vars

\* a client that lost its connection connects again and asks for the
\* messages that were queued for its former id, with the type that the
\* router handles or with the type that the README gives
ReconnectionFrames(k) ==
  {Frame(TRUE, TRUE,
         FrameMsg(k, Shape(ToRoute("", HR, "", "/"), typ, NoRoute,
                           [NoBody EXCEPT !.id = ShortIDs[1]])),
         NoSig) : typ \in {"reconnect", "reconnection"}}
InitReconnection ==
  InitWith([routers |-> 1, conns |-> ReconnectionConns,
            reconnects |-> ReconnectionReconnects,
            msgs |-> ReconnectionMsgs])
NextReconnection ==
  \/ \E r \in Routers : Start(r)
  \/ \E r \in Routers, k \in Conns : Connect(r, k)
  \/ \E k \in Conns : CloseEvent(k)
  \/ \E r \in Routers :
        ServiceSend(r, Route(r, ShortIDs[1], HR), NoRoute, NoBody)
  \/ \E s \in Senders, r \in Routers : HandleIncomingChannelMessage(s, r)
  \/ \E k \in Conns : \E f \in ReconnectionFrames(k) : RouteWSMessage(k, f)
  \/ \E i \in 1..MaxReconnects : Tick(i)
  \/ \E r \in Routers : Resolve(r)
SpecReconnection == InitReconnection /\ [][NextReconnection]_vars

\* the names and the route table of one router, started with or without
\* external routes, while services register and ask for a refresh
ExternalPattern == <<"", "maps", Param>>
ExternalConfigs ==
  {DefaultConfig,
   [DefaultConfig EXCEPT
      !.externalRoutes = <<Entry("https://maps.example",
                                 <<RouteString("get", ExternalPattern)>>)>>]}
InitNames ==
  \E cfg \in ExternalConfigs :
     InitConfig([routers |-> 1, conns |-> 0, reconnects |-> 0,
                 msgs |-> NamesMsgs], cfg, <<Entry(HR, RouterRoutes)>>)
NextNames ==
  \/ \E r \in Routers : Start(r)
  \/ \E name \in ServiceNameSet, routes \in RouteLists : Register(name, routes)
  \/ \E r \in Routers : RefreshRoutes(r)
  \/ \E r \in Routers, b \in RefreshBodies : ServiceSend(r, NoRoute, NoRoute, b)
  \/ \E s \in Senders, r \in Routers : HandleIncomingChannelMessage(s, r)
SpecNames == InitNames /\ [][NextNames]_vars

\* the route table of one router while services register routes, ask for a
\* refresh of their routes, and clients send requests
InitRoutes ==
  InitConfig([routers |-> 1, conns |-> 0, reconnects |-> 0,
              msgs |-> RoutesMsgs], DefaultConfig,
             <<Entry(HR, RouterRoutes)>>)
NextRoutes ==
  \/ \E r \in Routers : Start(r)
  \/ \E name \in ServiceNameSet, routes \in RouteLists : Register(name, routes)
  \/ \E r \in Routers : RefreshRoutes(r)
  \/ \E r \in Routers, b \in RefreshBodies : ServiceSend(r, NoRoute, NoRoute, b)
  \/ \E s \in Senders, r \in Routers : HandleIncomingChannelMessage(s, r)
  \/ \E r \in Routers, req \in RouteRequests : RouteRequest(r, req)
  \/ \E i \in 1..RoutesMsgs : HttpApiResult(i, "ok")
SpecRoutes == InitRoutes /\ [][NextRoutes]_vars

\* unscoped refreshes of one router while services register, replace and
\* remove their routes
SnapshotMsgs == 2
InitSnapshot ==
  InitConfig([routers |-> 1, conns |-> 0, reconnects |-> 0,
              msgs |-> SnapshotMsgs], DefaultConfig,
             <<Entry(HR, RouterRoutes),
               Entry("red", <<RouteString("get", ItemPattern)>>)>>)
NextSnapshot ==
  \/ \E r \in Routers : Start(r)
  \/ \E name \in ServiceNameSet, routes \in RouteLists : Register(name, routes)
  \/ \E name \in ServiceNameSet : FlushRoutes(name)
  \/ \E r \in Routers : RefreshRoutes(r)
  \/ \E r \in Routers :
       ServiceSend(r, NoRoute, NoRoute, [NoBody EXCEPT !.action = "refresh"])
  \/ \E s \in Senders, r \in Routers : HandleIncomingChannelMessage(s, r)
SpecSnapshot == InitSnapshot /\ [][NextSnapshot]_vars

\* one router handles messages of services (replies with a via tag, refresh
\* requests) while redis and the registry may fail; no signal is sent to
\* the process, which exits only at the end of its own 'cleanup'
InitErrors ==
  InitConfig([routers |-> 1, conns |-> ErrorConns, reconnects |-> 0,
              msgs |-> ErrorMsgs], DefaultConfig,
             <<Entry(HR, RouterRoutes)>>)
NextErrors ==
  \/ \E r \in Routers : Start(r)
  \/ \E r \in Routers, k \in Conns : Connect(r, k)
  \/ \E k \in Conns : CloseEvent(k)
  \/ StoreFails
  \/ StoreRecovers
  \/ \E r \in Routers : \E v \in ViaTags(r) :
        ServiceSend(r, v, NoRoute, NoBody)
  \/ \E r \in Routers, b \in RefreshBodies : ServiceSend(r, NoRoute, NoRoute, b)
  \/ \E s \in Senders, r \in Routers : HandleIncomingChannelMessage(s, r)
  \/ \E r \in Routers : RefreshRoutes(r)
  \/ \E r \in Routers : RefreshRoutesFailed(r)
  \/ \E r \in Routers : UnhandledRejection(r)
  \/ \E r \in Routers : status[r] = "stopping" /\ Exit(r)
SpecErrors == InitErrors /\ [][NextErrors]_vars

\* shutdown of a replica next to a running peer: clients connect and close
\* while the replica runs, the grace period of shutdown() included
InitShutdown ==
  InitWith([routers |-> MaxRouters, conns |-> ShutdownConns,
            reconnects |-> 0, msgs |-> 0])
NextShutdown ==
  \/ \E r \in Routers : Start(r) \/ Shutdown(r) \/ Exit(r)
  \/ \E r \in Routers, k \in Conns : Connect(r, k)
  \/ \E k \in Conns : CloseEvent(k)
  \/ \E s \in Senders, r \in Routers : HandleIncomingChannelMessage(s, r)
SpecShutdown == InitShutdown /\ [][NextShutdown]_vars

(* ------------------------------ claims -------------------------------- *)
\* a reconnect frame of connection k claiming id c is handled in this step
ReconnectStep(k, c) ==
  /\ conn[k].st = "open"
  /\ nReconnects' = nReconnects + 1
  /\ conn'[k] = [conn[k] EXCEPT !.id = c]
  /\ Len(drains') = Len(drains) + 1

\* C5: after a reconnect frame of connection w, registered under id a, that
\* claims another id c, wsLocalClients has no entry for a, maps c to w, and
\* wsdir.del for a followed by wsdir.add for c went to every running peer,
\* whatever c was bound to before.
C5_ReconnectRebinds ==
  [][\A k \in Conns, c \in Ids :
       LET r == conn[k].router
           a == conn[k].id
       IN (ReconnectStep(k, c) /\ wsLocalClients[r][a] = k /\ a # c) =>
            /\ wsLocalClients'[r][a] = 0
            /\ wsLocalClients'[r][c] = k
            /\ \A p \in Routers \ {r} :
                 Up(p) => chan'[<<r, p>>] =
                            chan[<<r, p>>] \o <<Gossip("wsdir.del", r, a, {}),
                                                Gossip("wsdir.add", r, c, {})>>]_vars

\* C6: no two open connections of one router carry the same client id.
C6_OneConnectionPerId ==
  \A j \in Conns, k \in Conns :
     (j # k /\ conn[j].st = "open" /\ conn[k].st = "open"
        /\ conn[j].router = conn[k].router) => conn[j].id # conn[k].id

\* all gossip in flight between running routers has been handled
Quiescent ==
  \A p \in DOMAIN chan : Up(p[2]) => chan[p] = <<>>

\* C9: in every quiescent state, every running router P lists for every
\* other running router R exactly the ids of R's wsLocalClients.
C9_DirectoriesAgree ==
  Quiescent =>
    \A P \in Routers, R \in Routers :
       (P # R /\ Up(P) /\ Up(R)) => Listed(wsClients[P], R) = LocalIds(R)

\* C9 witness: a quiescent state after a reconnect and a close, in which a
\* peer lists a client that is connected to the other router
C9_Witness ==
  /\ Quiescent
  /\ nReconnects > 0
  /\ \E k \in Conns : conn[k].st = "closed"
  /\ \E P \in Routers, R \in Routers :
       P # R /\ Up(P) /\ Up(R) /\ LocalIds(R) # {}
         /\ Listed(wsClients[P], R) = LocalIds(R)

(* ----------------------------- the drain ------------------------------ *)
\* the positions in sent[k] of the frames of message mid that came out of an
\* offline queue: only they still carry the via tag with a subID
DrainedAt(k, mid) ==
  {n \in 1..Len(sent[k]) :
     sent[k][n].mid = mid /\ sent[k][n].via.subID # ""}
\* every frame of message mid that came out of an offline queue
Deliveries(mid) ==
  UNION {{<<k, n>> : n \in DrainedAt(k, mid)} : k \in Conns}

\* C1: of two messages that were queued for id c, in that order, when a
\* connection reconnected with id c, the drain sends the first to that
\* connection before the second.
C1_DrainKeepsEnqueueOrder ==
  \A i \in 1..Len(drains) :
     LET d == drains[i]
     IN \A p \in 1..Len(d.snap), q \in 1..Len(d.snap) :
          p < q =>
            \A a \in DrainedAt(d.ws, d.snap[p]), b \in DrainedAt(d.ws, d.snap[q]) :
               a < b

\* every drain that connection k started for id c has stopped for good
DrainsStopped(k, c) ==
  \A j \in 1..Len(drains) :
     (drains[j].ws = k /\ drains[j].id = c) => ~Live(j)

\* C3: once the drain of a reconnect with id c has stopped, the connection
\* being open still and nothing enqueued for c since the reconnect, every
\* message that was queued has been sent to the reconnecting connection and
\* the queued and processing lists of c are empty.
C3_DrainDeliversAll ==
  \A i \in 1..Len(drains) :
     LET d == drains[i]
         key == QueueKey(d.id)
     IN (/\ conn[d.ws].st = "open"
         /\ nEnq[key] = d.enqAt
         /\ DrainsStopped(d.ws, d.id))
        => /\ \A n \in 1..Len(d.snap) : DrainedAt(d.ws, d.snap[n]) # {}
           /\ queued[key] = <<>>
           /\ processing[key] = <<>>

\* C4: no message that was enqueued is sent to client connections more than
\* once, whatever the overlap of dequeues and of drains for one id.
C4_AtMostOnce ==
  \A mid \in 1..MaxMsgs : Cardinality(Deliveries(mid)) <= 1

\* C4 witness: a queued message has been sent while two connections drain
\* the same id and two dequeues of the router are unresolved
C4_Witness ==
  /\ \E mid \in 1..MaxMsgs : Deliveries(mid) # {}
  /\ \E i \in 1..Len(drains), j \in 1..Len(drains) :
       /\ drains[i].ws # drains[j].ws /\ drains[i].id = drains[j].id
       /\ Live(i) /\ Live(j)
  /\ \E r \in Routers : Len(replies[r]) >= 2

(* --------------------------- via and forward -------------------------- *)
\* router r handles, in this step, the oldest message sender s has in flight
\* to it
ChannelStep(s, r) ==
  /\ Up(r)
  /\ status' = status
  /\ chan[<<s, r>>] # <<>>
  /\ chan'[<<s, r>>] = Tail(chan[<<s, r>>])

\* the step appends frame f to sent[w] and sends nothing else
SentOnly(w, f) == sent' = [sent EXCEPT ![w] = Append(@, f)]
\* the step appends message m to the queued list of id c and nothing else
EnqueuedOnly(c, m) ==
  queued' = [queued EXCEPT ![QueueKey(c)] = Append(@, Stringify(m))]

FirstLister(d, u, g) ==
  \E i \in 1..Len(d) :
     /\ d[i].routerID = g
     /\ u \in d[i].dir
     /\ \A j \in 1..(i-1) : u \notin d[j].dir

RECURSIVE ApplyAll(_, _)
ApplyAll(d, q) ==
  IF q = <<>> THEN d ELSE ApplyAll(GossipDir(d, Head(q)), Tail(q))

\* whether id c is listed after the messages of q: what the last message of
\* q that speaks about c says, and base if none does
RECURSIVE LastWord(_, _, _)
LastWord(q, c, base) ==
  IF q = <<>> THEN base
  ELSE LET m == q[Len(q)]
       IN CASE m.typ = "wsdir.dir" -> c \in m.body.directory
            [] m.typ = "wsdir.rem" -> FALSE
            [] m.typ = "wsdir.add" /\ m.body.clientID = c -> TRUE
            [] m.typ = "wsdir.del" /\ m.body.clientID = c -> FALSE
            [] OTHER -> LastWord(SubSeq(q, 1, Len(q) - 1), c, base)

Reordered(q, f) == [i \in 1..Len(q) |-> q[f[i]]]
DirsOf(q) == {i \in 1..Len(q) : q[i].typ = "wsdir.dir"}
LastDir(q) == q[CHOOSE i \in DirsOf(q) : \A j \in DirsOf(q) : j <= i]

\* C10: handled in the order they arrive, the messages a peer s has in
\* flight to router r leave r listing for s exactly the ids whose last
\* message (a wsdir.dir or wsdir.rem speaks about every id) is an add or a
\* wsdir.dir that lists them; ids no message speaks about stay as they are.
C10_LastMessagePerIdWins ==
  \A r \in Routers, s \in Routers :
     (Up(r) /\ s # r) =>
       LET q == chan[<<s, r>>]
       IN Listed(ApplyAll(wsClients[r], q), s)
            = {c \in Ids : LastWord(q, c, c \in Listed(wsClients[r], s))}

\* C10 witness: a router that lists clients of a peer has a wsdir.dir of the
\* peer in flight, and after it a wsdir.del of a client the wsdir.dir lists
C10_Witness ==
  \E r \in Routers, s \in Routers :
     LET q == chan[<<s, r>>]
     IN /\ Up(r) /\ s # r
        /\ Listed(wsClients[r], s) # {}
        /\ Len(q) >= 2
        /\ q[1].typ = "wsdir.dir"
        /\ q[2].typ = "wsdir.del"
        /\ q[2].body.clientID \in q[1].body.directory

\* C10 as claimed: handled in any order, the messages a peer has in flight
\* give the same listing for the peer, and it is the directory of the last
\* wsdir.dir among them when there is one.
C10_AnyOrderAsLastDir ==
  \A r \in Routers, s \in Routers :
     (Up(r) /\ s # r) =>
       LET q == chan[<<s, r>>]
       IN \A f \in Permutations(1..Len(q)) :
            Listed(ApplyAll(wsClients[r], Reordered(q, f)), s)
              = IF DirsOf(q) # {} THEN LastDir(q).body.directory
                ELSE Listed(ApplyAll(wsClients[r], q), s)

(* ------------------------------- C11 ---------------------------------- *)
\* C11: once a replica that went through shutdown() has exited and all its
\* gossip has been handled, no running peer lists the replica in its
\* GlobalDirectory.
C11_NoEntryAfterShutdown ==
  \A r \in Routers, p \in Routers :
     (status[r] = "stopped" /\ Up(p) /\ chan[<<r, p>>] = <<>>)
        => r \notin DirKeys(wsClients[p])

(* ------------------------------- C12 ---------------------------------- *)
\* the frame f of connection k passes the checks and is routed through HTTP
ThroughHttp(k, f) ==
  /\ WellFormed(f)
  /\ SignatureError(config, f) = ""
  /\ HasBrackets(f.msg.to)
  /\ f.msg.to.service # HR

\* C12: a client frame whose `to` has a bracketed method and names another
\* service than the gateway starts exactly one API request, with the frame's
\* `to` unchanged, and sends nothing yet; when the request settles (result,
\* error status or rejection) it is not started again and exactly one frame
\* is sent on the connection of the frame, a reply to the frame's sender
\* whose rmid is the frame's mid.
C12_OneRequestOneReply ==
  [][/\ \A k \in Conns : \A f \in ClientFrames(k) :
          (RouteWSMessage(k, f) /\ ThroughHttp(k, f))
             => /\ Len(api') = Len(api) + 1
                /\ SubSeq(api', 1, Len(api)) = api
                /\ api'[Len(api')].kind = "ws"
                /\ api'[Len(api')].ws = k
                /\ api'[Len(api')].msg.to = f.msg.to
                /\ api'[Len(api')].msg.mid = f.msg.mid
                /\ sent' = sent
                /\ svcInbox' = svcInbox
     /\ \A i \in 1..FrameMsgs, o \in Outcomes :
          (WsApiResult(i, o) /\ conn[api[i].ws].st = "open")
             => /\ api' = Without(api, i)
                /\ \A j \in Conns \ {api[i].ws} : sent'[j] = sent[j]
                /\ Len(sent'[api[i].ws]) = Len(sent[api[i].ws]) + 1
                /\ SubSeq(sent'[api[i].ws], 1, Len(sent[api[i].ws]))
                     = sent[api[i].ws]
                /\ sent'[api[i].ws][Len(sent'[api[i].ws])].rmid
                     = api[i].msg.mid
                /\ sent'[api[i].ws][Len(sent'[api[i].ws])].to
                     = api[i].msg.frm
    ]_vars

\* a connection has got the reply to a frame whose request was rejected, and
\* the reply to a frame whose request gave a result
C12_Witness ==
  \E k \in Conns : \E i \in 1..Len(sent[k]), j \in 1..Len(sent[k]) :
     /\ "rmid" \in DOMAIN sent[k][i] /\ "rmid" \in DOMAIN sent[k][j]
     /\ sent[k][i].rmid > 0 /\ sent[k][i].typ = ""
     /\ sent[k][j].rmid > 0 /\ sent[k][j].typ = ""
     /\ sent[k][i].body = "error"
     /\ sent[k][j].body = "ok"

(* ------------------------------- C13 ---------------------------------- *)
\* the API requests for the n-th HTTP request that are unresolved
PendingFor(n) == {i \in 1..Len(api) : api[i].kind = "http" /\ api[i].n = n}

\* C13: for an HTTP request attributed to a service other than the gateway
\* the API request is made at most once, whatever its outcome, none is
\* pending once the response is written, and its `to` is
\* <service>:[<lower-cased method>]<forwarded URL>.
C13_AtMostOneApiRequest ==
  \A n \in 1..Len(http) :
     (http[n].serviceName \notin {"", HR})
        => /\ Len(http[n].calls) <= 1
           /\ Cardinality(PendingFor(n)) <= Len(http[n].calls)
           /\ http[n].statusCode # 0 => PendingFor(n) = {}
           /\ \A c \in 1..Len(http[n].calls) :
                http[n].calls[c].to =
                  ToRoute("", http[n].serviceName,
                          ToLowerCase(http[n].req.method),
                          http[n].requestUrl)

\* a POST attributed to a service was answered after its one API request
\* was rejected
C13_Witness ==
  \E n \in 1..Len(http) :
     /\ http[n].serviceName \in ServiceNameSet
     /\ http[n].req.method = "POST"
     /\ Len(http[n].calls) = 1
     /\ http[n].calls[1].to.httpMethod = "post"
     /\ http[n].statusCode = 503

(* ------------------------------- C14 ---------------------------------- *)
\* route j of the i-th service of table t matches q and no service before
\* the i-th has a route that matches q
FirstService(t, i, j, q) ==
  /\ Match(t[i].routes[j].pattern, q)
  /\ \A x \in 1..(i - 1) : \A y \in 1..Len(t[x].routes) :
        ~Match(t[x].routes[y].pattern, q)

\* the lookup of the request that this step handles gave service and pattern
LookupGave(serviceName, pattern) ==
  /\ http'[Len(http')].serviceName = serviceName
  /\ http'[Len(http')].pattern = pattern

\* C14: the lookup returns service s and pattern p for every path q that p
\* matches, provided no service inserted before s has a pattern that
\* matches q and no pattern listed before p under s matches q.
C14_FirstMatchInOrder ==
  [][\A r \in Routers, req \in Requests :
        (RouteRequest(r, req) /\ req.method # "OPTIONS")
           => \A i \in 1..Len(routerTable[r]) :
                \A j \in 1..Len(routerTable[r][i].routes) :
                   (/\ FirstService(routerTable[r], i, j, req.url)
                    /\ \A y \in 1..(j - 1) :
                          ~Match(routerTable[r][i].routes[y].pattern, req.url))
                      => LookupGave(routerTable[r][i].serviceName,
                                    routerTable[r][i].routes[j].pattern)
    ]_vars

\* a path that two patterns of the second service of the table match was
\* looked up and attributed to that service with its first pattern
C14_Witness ==
  \E n \in 1..Len(http) :
     LET t == routerTable[http[n].router]
     IN /\ Len(t) >= 2
        /\ http[n].serviceName = t[2].serviceName
        /\ Len(t[2].routes) = 2
        /\ Match(t[2].routes[1].pattern, http[n].req.url)
        /\ Match(t[2].routes[2].pattern, http[n].req.url)
        /\ http[n].pattern = t[2].routes[1].pattern
        /\ t[2].routes[1].pattern # t[2].routes[2].pattern

\* C14 as stated: every pattern p of s that matches q is returned when no
\* earlier service matches q.
C14_EveryMatchingPattern ==
  [][\A r \in Routers, req \in Requests :
        (RouteRequest(r, req) /\ req.method # "OPTIONS")
           => \A i \in 1..Len(routerTable[r]) :
                \A j \in 1..Len(routerTable[r][i].routes) :
                   FirstService(routerTable[r], i, j, req.url)
                      => LookupGave(routerTable[r][i].serviceName,
                                    routerTable[r][i].routes[j].pattern)
    ]_vars

(* ------------------------------- C15 ---------------------------------- *)
\* no pattern of table t matches q
Unmatched(t, q) ==
  \A i \in 1..Len(t) : \A j \in 1..Len(t[i].routes) :
     ~Match(t[i].routes[j].pattern, q)

\* q with its first segment removed; the empty remainder is the empty string
Remainder(q) ==
  IF Len(q) = 2 \/ (Len(q) = 3 /\ q[3] = "") THEN <<"">>
  ELSE <<"">> \o SubSeq(q, 3, Len(q))

\* the names of list names that occur in the referer after a slash
InReferer(names, referer) ==
  {i \in 1..Len(names) :
     \E x \in 2..Len(referer) : StartsWith(referer[x], names[i])}

\* the request that this step handles was attributed to serviceName, with
\* the forwarded URL requestUrl
AttributedTo(serviceName, requestUrl) ==
  /\ http'[Len(http')].serviceName = serviceName
  /\ http'[Len(http')].requestUrl = requestUrl

\* C15: a path q that matches no pattern is attributed to the first service
\* of ServiceNameSet, in its key order, whose /name occurs in the referer,
\* and q is forwarded unchanged; if there is none, to the first segment of q
\* if that is in ServiceNameSet, and q is forwarded without its first
\* segment (the empty remainder as the empty string); else to no service.
C15_FallbackAttribution ==
  [][\A r \in Routers, req \in Requests :
        (/\ RouteRequest(r, req)
         /\ req.method # "OPTIONS"
         /\ Unmatched(routerTable[r], req.url))
           => LET names == serviceNames[r]
                  refs == InReferer(names, req.referer)
              IN IF refs # {}
                   THEN AttributedTo(
                          names[CHOOSE i \in refs : \A j \in refs : i <= j],
                          req.url)
                 ELSE IF \E i \in 1..Len(names) : names[i] = req.url[2]
                   THEN AttributedTo(req.url[2], Remainder(req.url))
                 ELSE http'[Len(http')].serviceName = ""
    ]_vars

\* a request that matched no pattern, whose referer names two services and
\* whose first segment is a service too, was attributed to the first service
\* of the referer with its URL unchanged
C15_Witness ==
  \E n \in 1..Len(http) :
     LET names == serviceNames[http[n].router]
         refs == InReferer(names, http[n].req.referer)
     IN /\ http[n].pattern = <<>>
        /\ Cardinality(refs) = 2
        /\ http[n].req.url[2] \in ServiceNameSet
        /\ http[n].serviceName = names[CHOOSE i \in refs : \A j \in refs : i <= j]
        /\ http[n].requestUrl = http[n].req.url

\* C15 as stated: the request is attributed to s iff the referer contains
\* /s, or the first segment of q is s and s is in ServiceNameSet.
C15_RefererOrSegmentIff ==
  [][\A r \in Routers, req \in Requests :
        (/\ RouteRequest(r, req)
         /\ req.method # "OPTIONS"
         /\ Unmatched(routerTable[r], req.url))
           => \A name \in ServiceNameSet \cup {HR} :
                 (http'[Len(http')].serviceName = name)
                    <=> \/ \E x \in 2..Len(req.referer) :
                              StartsWith(req.referer[x], name)
                        \/ /\ req.url[2] = name
                           /\ \E i \in 1..Len(serviceNames[r]) :
                                 serviceNames[r][i] = name
    ]_vars

(* ------------------------------- C16 ---------------------------------- *)
\* the table entries for the routes that the registry has for a service
Compiled(routes) == [i \in 1..Len(routes) |-> [pattern |-> routes[i].path]]

\* C16: whatever a step does, the pattern list that a lookup finds for a
\* service afterwards is the list from before the step or the complete list
\* of the registry for the service, never a part or a mixture of them.
C16_OldOrNewList ==
  [][\A r \in Routers, name \in ServiceNameSet \cup {HR} :
        \/ TableGet(routerTable'[r], name) = TableGet(routerTable[r], name)
        \/ TableGet(routerTable'[r], name)
             = Compiled(RoutesOf(registry, name))
    ]_vars

\* a lookup was answered from the two-pattern list of a service while a
\* refresh was unresolved and the registry had another list for the service
C16_Witness ==
  \E n \in 1..Len(http) :
     LET r == http[n].router
         name == http[n].serviceName
     IN /\ name \in ServiceNameSet
        /\ http[n].pattern = NewItemPattern
        /\ Len(TableGet(routerTable[r], name)) = 2
        /\ refreshes[r] # <<>>
        /\ Len(RoutesOf(registry, name)) = 1

OnlyDelGossip ==
  \A p \in DOMAIN chan :
     \/ chan'[p] = chan[p]
     \/ /\ Len(chan'[p]) = Len(chan[p]) + 1
        /\ SubSeq(chan'[p], 1, Len(chan[p])) = chan[p]
        /\ chan'[p][Len(chan'[p])].typ = "wsdir.del"

\* connection k gets one more frame, an error frame with one of the texts,
\* and no other connection gets anything
ErrorFrameOnly(k, texts) ==
  /\ \A j \in Conns \ {k} : sent'[j] = sent[j]
  /\ Len(sent'[k]) = Len(sent[k]) + 1
  /\ SubSeq(sent'[k], 1, Len(sent[k])) = sent[k]
  /\ sent'[k][Len(sent'[k])].body.error \in texts

\* nothing is dispatched: no admin handling, no API or presence request,
\* nothing sent to a service, no queue append, no re-binding, no drain
NotDispatched(k) ==
  /\ api' = api
  /\ svcInbox' = svcInbox
  /\ refreshes' = refreshes
  /\ routerTable' = routerTable
  /\ queued' = queued
  /\ lookups' = lookups
  /\ drains' = drains
  /\ errorStats' = errorStats
  /\ conn'[k].id = conn[k].id
  /\ OnlyDelGossip

\* connection k is closed by the router and is out of its LocalDirectory
ClosedByRouter(k) ==
  /\ conn'[k].st = "closing"
  /\ wsLocalClients'[conn[k].router][conn[k].id] = 0
  /\ conn[k].id \notin Listed(wsClients'[conn[k].router], conn[k].router)

\* C18: with forceMessageSignature on, a client frame that has to, from and
\* body but no signature, or a signature that is not the HMAC of the frame
\* under the shared secret, is not dispatched; the client gets one error
\* frame and the connection is closed.
C18_UnsignedNotDispatched ==
  [][\A k \in Conns : \A f \in ClientFrames(k) :
        (/\ RouteWSMessage(k, f)
         /\ WellFormed(f)
         /\ config.forceMessageSignature
         /\ f.signature # HMAC(config.signatureSharedSecret, f.msg))
           => /\ NotDispatched(k)
              /\ ErrorFrameOnly(k, {"Not a signed UMF message",
                                    "Invalid signed UMF message"})
              /\ ClosedByRouter(k)
    ]_vars

\* with forceMessageSignature on, one connection was closed for a frame
\* signed under another key, and a frame with the right signature was
\* routed through HTTP
C18_Witness ==
  /\ config.forceMessageSignature
  /\ \E k \in Conns :
        /\ conn[k].st = "closing"
        /\ sent[k][Len(sent[k])].body.error = "Invalid signed UMF message"
  /\ \E i \in 1..Len(api) : api[i].kind = "ws"

(* ------------------------------- C19 ---------------------------------- *)
\* C19: for a frame that is no JSON, or that lacks to, from or body, the
\* gateway sends exactly one error frame on the connection while it is still
\* open, closes it and removes it from its LocalDirectory; the frame is not
\* routed, relayed or queued.
C19_InvalidFrameClosed ==
  [][\A k \in Conns : \A f \in ClientFrames(k) :
        (/\ RouteWSMessage(k, f)
         /\ \/ ~f.json
            \/ f.msg.to = NoTo
            \/ f.msg.frm = NoRoute
            \/ ~f.hasBody)
           => /\ conn[k].st = "open"
              /\ ErrorFrameOnly(k, {"Invalid UMF message"})
              /\ ClosedByRouter(k)
              /\ NotDispatched(k)
    ]_vars

\* two connections were closed for invalid frames, and each got the error
\* frame as the last frame after its welcome
C19_Witness ==
  \E k \in Conns, j \in Conns :
     /\ k # j
     /\ conn[k].st = "closing" /\ conn[j].st = "closing"
     /\ Len(sent[k]) = 2 /\ Len(sent[j]) = 2
     /\ sent[k][2].body.error = "Invalid UMF message"
     /\ sent[j][2].body.error = "Invalid UMF message"
     /\ LocalIds(conn[k].router) = {}

(* ------------------------------- C20 ---------------------------------- *)
\* the frame f passes the checks, has no bracketed method and names a
\* service other than the gateway, without an instance
ToAnyInstance(f) ==
  /\ WellFormed(f)
  /\ SignatureError(config, f) = ""
  /\ ~HasBrackets(f.msg.to)
  /\ f.msg.to.service # HR
  /\ f.msg.to.instance = ""

\* C20: a frame without bracketed method for a service other than the
\* gateway, without instance part, starts one presence lookup and sends
\* nothing; when the registry reports no live instance, the open connection
\* gets exactly one error frame 'No <service> instances available',
\* errorStats of the service goes up by one, nothing is sent to a service
\* or to a router, and the connection stays open and bound.
C20_NoInstancesError ==
  [][/\ \A k \in Conns : \A f \in ClientFrames(k) :
          (RouteWSMessage(k, f) /\ ToAnyInstance(f))
             => /\ Len(api') = Len(api) + 1
                /\ api'[Len(api')].kind = "presence"
                /\ api'[Len(api')].msg = f.msg
                /\ sent' = sent /\ svcInbox' = svcInbox /\ chan' = chan
     /\ \A i \in 1..FrameMsgs :
          (ServicePresenceResult(i, 0) /\ conn[api[i].ws].st = "open")
             => /\ ErrorFrameOnly(api[i].ws,
                                  {NoInstances(api[i].msg.to.service)})
                /\ Logged(errorStats'[api[i].router], api[i].msg.to.service)
                     = Logged(errorStats[api[i].router],
                              api[i].msg.to.service) + 1
                /\ Len(errorStats'[api[i].router])
                     = Len(errorStats[api[i].router]) + 1
                /\ svcInbox' = svcInbox
                /\ chan' = chan
                /\ queued' = queued
                /\ conn' = conn
                /\ wsLocalClients' = wsLocalClients
                /\ api' = Without(api, i)
    ]_vars

\* an open connection got the error frame for the service, the error of the
\* service was counted once and no service got a message
C20_Witness ==
  \E k \in Conns :
     /\ conn[k].st = "open"
     /\ Len(sent[k]) = 2
     /\ "rmid" \notin DOMAIN sent[k][2]
     /\ sent[k][2].body.error = NoInstances(ServiceNameList[1])
     /\ Logged(errorStats[conn[k].router], ServiceNameList[1]) = 1
     /\ svcInbox = <<>>
     /\ api = <<>>

(* ------------------------------- C21 ---------------------------------- *)
\* C21: whatever fails while a channel message is handled (an enqueue that
\* redis rejects, a route fetch that fails), the process does not start its
\* cleanup and does not exit: with no signal sent to it, every replica that
\* was started keeps serving.
C21_ChannelErrorsSwallowed ==
  \A r \in Routers : status[r] \notin {"stopping", "stopped"}


(* --------------------------- the router API --------------------------- *)
\* the request is matched to a route of the router that is no static asset
OwnRoute(r, req) ==
  LET m == Attribute(routerTable[r], serviceNames[r], req)
  IN m # NoMatch /\ m.serviceName = HR /\ m.pattern # StaticPattern
LastStatus(h) == h[Len(h)].statusCode
NamesLocalhost(host) == host \in {"localhost", "localhost:5353"}
TokenNotSet(cfg) == "routerToken" \notin DOMAIN cfg \/ cfg.routerToken = <<>>

\* C22: when disableRouterEndpoint is true, a request that is matched to a
\* route of the router other than a static asset is answered with 404 and
\* asks for no refresh, whatever its Host header and its token are.
C22_DisabledEndpoint404 ==
  [][\A r \in Routers, req \in AdminRequests :
       (RouteRequest(r, req) /\ config.disableRouterEndpoint
          /\ OwnRoute(r, req))
         => (LastStatus(http') = 404 /\ refreshes' = refreshes)]_vars

\* C23: when disableRouterEndpoint is false, a request for a route of the
\* router from a host other than localhost is served if and only if the
\* configuration sets no routerToken (blank or absent) or the token of the
\* request is a UUIDv4 equal to routerToken; otherwise it is answered 404.
C23_ServedIffTokenMatches ==
  [][\A r \in Routers, req \in AdminRequests :
       (RouteRequest(r, req) /\ ~config.disableRouterEndpoint
          /\ ~NamesLocalhost(req.host) /\ OwnRoute(r, req))
         => (LastStatus(http') # 404
               <=> (\/ TokenNotSet(config)
                    \/ /\ IsUUID4(req.token)
                       /\ req.token = config.routerToken))]_vars


(* ------------------------------ the stats ----------------------------- *)
\* C24: after N calls of log(t) within one second, the one-second aggregate
\* that is read for t (in the second that follows) is N, in every second
\* of the hour, second 0 included, and in every hour.
C24_LastSecondCountsCalls ==
  \A r \in Routers, t \in ServiceNameSet :
     logCalls[r].last[t] > 0
       => /\ t \in DOMAIN httpStats[r].stats
          /\ GetLastSecond(GetRawStats(httpStats[r], GetSecond(clock), t))
               = <<logCalls[r].last[t]>>


(* ---------------------------- the issue log --------------------------- *)
\* C25: the issue log is longer than MAX_ISSUE_LOG_ENTRIES only while a
\* trim is pending, and when the trim fires it leaves at most
\* MAX_ISSUE_LOG_ENTRIES entries, however many entries were logged while it
\* was pending.
C25_IssueLogBounded ==
  [][\A r \in Routers :
       /\ IssueLogCleanup(r) => Len(issueLog'[r]) <= MaxIssueLogEntries
       /\ Len(issueLog'[r]) > MaxIssueLogEntries
            => issueLogCleanup'[r].scheduled]_vars


C27_ReconnectionStartsDrain ==
  [][\A k \in Conns : \A f \in ReconnectionFrames(k) :
       (RouteWSMessage(k, f) /\ f.msg.typ = "reconnection"
          /\ queued[QueueKey(f.msg.body.id)] # <<>>)
         => /\ conn'[k].st = "open"
            /\ \E i \in 1..Len(drains') :
                  /\ drains'[i].ws = k /\ drains'[i].active
                  /\ drains'[i].id = f.msg.body.id]_vars


(* ------------------------ the drain and the close --------------------- *)
\* C28: in the drain of a reconnect, complete(c, m) is called for a
\* dequeued message m only after m was sent to the connection: when the
\* send fails, m stays in the processing list of c.
C28_CompleteOnlyAfterSend ==
  [][\A r \in Routers :
       (/\ replies[r] # <<>>
        /\ Resolve(r)
        /\ Head(replies[r]).obj # Null
        /\ conn[drains[Head(replies[r]).iid].ws].st # "open")
         => processing' = processing]_vars

\* C29: once the close of connection w has been handled, the drain that the
\* reconnect of w started issues no further dequeue, and what is queued
\* stays queued.
C29_NoDequeueAfterClose ==
  [][\A i \in 1..MaxReconnects :
       (i \in 1..Len(drains) /\ conn[drains[i].ws].st = "closed")
         => ~Tick(i)]_vars


(* --------------------------- the service names ------------------------ *)
\* C30: once a refresh of a router has completed, the names in
\* this.serviceNames are the keys of this.routerTable, whatever routes init
\* was given (external routes included) and whatever scoped and unscoped
\* refreshes follow while services come to the registry.
C30_NamesAreTableKeys ==
  \A r \in Routers :
     (Up(r) /\ serviceNames[r] # <<>>)
       => {serviceNames[r][i] : i \in 1..Len(serviceNames[r])}
            = TableKeys(routerTable[r])


(* ------------------------- the body of a request ---------------------- *)
\* C31: a POST or PUT request whose gzip body does not inflate is logged
\* and then forwarded as with an empty body, so that the client gets a
\* response.
C31_InflateFailureForwarded ==
  [][\A r \in Routers, req \in Requests :
       (/\ RouteRequest(r, req)
        /\ req.method \in {"POST", "PUT"} /\ req.gzip = "bad"
        /\ Attribute(routerTable[r], serviceNames[r], req) # NoMatch
        /\ Attribute(routerTable[r], serviceNames[r], req).serviceName # HR)
         => /\ Len(issueLog'[r]) = Len(issueLog[r]) + 1
            /\ Len(api') = Len(api) + 1
            /\ http'[Len(http')].calls # <<>>]_vars


(* ------------------------ the close and the others -------------------- *)
\* C32: handling the close of a connection leaves the entries that
\* wsLocalClients and wsClients[self] hold for every other open connection
\* as they are, also when the closed connection carries an id that another
\* connection is bound to.
C32_CloseLeavesOthers ==
  [][\A k \in Conns :
       CloseEvent(k)
         => LET r == conn[k].router
            IN \A c \in Ids :
                 LET j == wsLocalClients[r][c]
                 IN (j # 0 /\ j # k /\ conn[j].st = "open")
                      => /\ wsLocalClients'[r][c] = j
                         /\ (c \in DirGet(wsClients'[r], r))
                              <=> (c \in DirGet(wsClients[r], r))]_vars


(* ----------------------- one response per request --------------------- *)
\* C33: every accepted HTTP request receives a response on every path: a
\* request that has no response yet has its API request in flight, whose
\* settling writes the response.
C33_EveryRequestAnswered ==
  \A n \in 1..Len(http) :
    http[n].statusCode = 0
      => \E i \in 1..Len(api) : api[i].kind = "http" /\ api[i].n = n


(* ------------------- the router API over a connection ----------------- *)
\* the frame f of connection k was served: its admin result was sent, or
\* the refresh it asks for was started
ServedWS(k) ==
  \/ refreshes' # refreshes
  \/ /\ Len(sent'[k]) > Len(sent[k])
     /\ sent'[k][Len(sent'[k])].body # "not routable"
\* the request for the version of the router with token t in its query
VersionRequest(t) ==
  [Request("GET", VersionPattern, <<>>, "ok") EXCEPT !.token = t]

\* C34: an admin operation asked for in a frame of a client connection is
\* served only when disableRouterEndpoint and routerToken would authorize
\* the operation over HTTP, for some token the client could present.
C34_WsAdminAuthorized ==
  [][\A k \in Conns : \A f \in AdminFrames(k) :
       (RouteWSMessage(k, f) /\ ServedWS(k))
         => \E t \in Tokens \cup {<<>>} :
               AllowRouterCall(config, VersionRequest(t))]_vars


(* ------------------ channel messages with via or forward -------------- *)
\* the types of the directory gossip
WsdirTypes == {"wsdir.add", "wsdir.del", "wsdir.rem", "wsdir.sha", "wsdir.dir"}

\* C35: a channel message that carries via or forward and is neither a
\* refresh request nor directory gossip of a wsdir type is sent to a local
\* connection or appended to an offline queue, whatever else its body holds,
\* and leaves wsClients as it is.
C35_ViaForwardNeverDropped ==
  [][\A s \in Senders, r \in Routers :
       LET m == Head(chan[<<s, r>>])
       IN (/\ ChannelStep(s, r) /\ ~IsRefresh(m) /\ m.typ \notin WsdirTypes
           /\ (HasVia(m) \/ HasForward(m)))
          => /\ sent' # sent \/ queued' # queued
             /\ wsClients' = wsClients]_vars


(* ------------------------ the method of a route ----------------------- *)
\* C36: a request with method M that the route lookup attributes to service
\* s matches a pattern that s registered under method M.
C36_MethodRespected ==
  \A n \in 1..Len(http) :
    LET h == http[n]
        routes == RoutesOf(registry, h.serviceName)
    IN h.pattern # <<>>
         => \E i \in 1..Len(routes) :
               /\ routes[i].method = ToLowerCase(h.req.method)
               /\ Match(routes[i].path, h.req.url)


(* ------------------------- relayed at most once ----------------------- *)
\* the messages with forward that are in flight on the channels of c
ForwardsInFlight(c) ==
  {x \in UNION {{<<p, n>> : n \in 1..Len(c[p])} : p \in DOMAIN c} :
     HasForward(c[x[1]][x[2]])}

\* C37: a message with forward is relayed between routers at most once: the
\* router that looked up the listed router sends one copy, and a router that
\* takes a message with forward from the channel sends none, so the message
\* leaves the channels.
C37_ForwardRelayedOnce ==
  [][/\ \A s \in Senders, g \in Routers :
          (ChannelStep(s, g) /\ HasForward(Head(chan[<<s, g>>])))
            => Cardinality(ForwardsInFlight(chan'))
                 = Cardinality(ForwardsInFlight(chan)) - 1
     /\ \A r \in Routers :
          PresenceResult(r)
            => Cardinality(ForwardsInFlight(chan'))
                 <= Cardinality(ForwardsInFlight(chan)) + 1]_vars

\* C37 witness: a frame of a client that one router relayed was taken from
\* the channel by the other router and sent to the client it names there,
\* and no message with forward is in flight any more
C37_Witness ==
  /\ ForwardsInFlight(chan) = {}
  /\ \E k \in Conns : \E n \in 1..Len(sent[k]) :
        /\ sent[k][n].frm.service = "client"
        /\ sent[k][n].forward.instance = conn[k].id
        /\ sent[k][n].to = Route(conn[k].router, "", HR)
        /\ sent[k][n].frm.instance # conn[k].id


(* ------------------------- the unscoped refresh ----------------------- *)
\* C38: when an unscoped refresh completes, the entry of each service that
\* the registry has is the pattern list of the registry, and a service that
\* the registry does not have has no routes left in the table.
C38_TableEqualsSnapshot ==
  [][\A r \in Routers :
       (RefreshRoutes(r) /\ Head(refreshes[r]) = "")
         => \A name \in ServiceNameSet \cup {HR} :
               IF \E i \in 1..Len(registry) : registry[i].serviceName = name
                 THEN TableGet(routerTable'[r], name)
                        = Compiled(RoutesOf(registry, name))
                 ELSE TableGet(routerTable'[r], name) = <<>>]_vars


(* --------------------- one reply per admin frame ---------------------- *)
\* the admin routes that a frame may ask for
AdminResultsWS ==
  {"/v1/router/list/routes", "/v1/router/list/services",
   "/v1/router/list/nodes", "/v1/router/list/wsdir", "/v1/router/clear",
   "/v1/router/health", "/v1/router/refresh", "/v1/router/version",
   "/v1/router/stats"}

\* C39: a frame whose to carries a method and names the router gets exactly
\* one reply frame on its connection: the admin result if its route is an
\* admin route, an error frame otherwise.
C39_OneReplyPerAdminFrame ==
  [][\A k \in Conns : \A f \in AdminFrames(k) :
       RouteWSMessage(k, f)
         => /\ Len(sent'[k]) = Len(sent[k]) + 1
            /\ (sent'[k][Len(sent'[k])].body # "not routable")
                 <=> (f.msg.to.apiRoute \in AdminResultsWS)]_vars


(* ---------------------- the counter of one second --------------------- *)
\* C40: right after log(t) the counter of target t for the current second
\* is the number of log(t) calls made in this second, whatever was logged
\* for other targets in the second and whatever the cell held from an
\* earlier hour.
C40_CounterCountsCalls ==
  [][\A r \in Routers, req \in StatsRequests :
       RouteRequest(r, req)
         => \A t \in ServiceNameSet :
               logCalls'[r].now[t] # logCalls[r].now[t]
                 => httpStats'[r].stats[t][GetSecond(clock)]
                      = logCalls'[r].now[t]]_vars

====
